---- MODULE Spec2Model ----
(***************************************************************************)
(* A model of graphorm's Cypher statement builder: Statement / Select /    *)
(* Delete (select.py, delete.py), the expression serializers               *)
(* (expression.py, property.py) and the alias map threaded through one     *)
(* compile.                                                                *)
(*                                                                         *)
(* Text is modelled as a sequence of `parts' (the list the code joins with *)
(* a blank); each part is a sequence of tokens, each token a piece of the  *)
(* text the code produces.  Tokens of one part are joined by a blank,      *)
(* except "(" , ")" and "," which attach as in the code's f-strings.       *)
(***************************************************************************)
EXTENDS Integers, Sequences, FiniteSets, TLC

VARIABLES stmt, out, prev, fresh, compiles, hist, call, ret, graph, tx, driver, threads

vars == <<stmt, out, prev, fresh, compiles, hist, call, ret, graph, tx, driver, threads>>

\* the state of the query builder; call and ret hold the last call of a
\* stand-alone function and what it returned
QueryVars == <<stmt, out, prev, fresh, compiles, hist>>

\* no stand-alone function has been called
NoCall == [fn |-> "", arg |-> <<>>]

\* the threads that compile one statement at the same time
Threads == {1, 2}

\* no thread has called to_cypher()
NoThreads == [t \in Threads |-> [pc |-> "idle", i |-> 1, name |-> "", binds |-> <<>>]]

\* a Graph and its Driver; tx is the Transaction of the with block
GraphVars == <<graph, tx, driver>>

\* Graph.__init__ : no nodes, no edges (each dict in insertion order)
NewGraph == [nodes |-> <<>>, edges |-> <<>>]

\* no call of Driver.commit yet; items are those of the last call
NewDriver == [calls |-> 0, items |-> <<>>]

\* no with block has been entered
NoTransaction == [state |-> "none", entered |-> 0, nodes |-> <<>>, edges |-> <<>>]

(***************************************************************************)
(* Bounds of the model.                                                    *)
(***************************************************************************)
MaxCalls == 3
MaxCompiles == 2
\* a statement that was compiled is used again (a further builder call or a
\* further to_cypher() call) only while it has had at most MaxResume builder
\* calls; longer statements are compiled once
MaxResume == 2

(***************************************************************************)
(* Declared classes.  Page is a Node subclass, Linked an Edge subclass;    *)
(* P and Q are Page.alias("p") and Page.alias("q"), R is                   *)
(* Linked.alias("r").  Web is a Node subclass that declares                *)
(* __label__ = "WebPage", W is Web.alias("w"); Follows is an Edge subclass *)
(* that declares __relation_name__ = "FOLLOWS".                            *)
(***************************************************************************)
NodeClasses == {"Page", "P", "Q", "Web", "W"}
EdgeClasses == {"Linked", "R", "Follows"}
Classes == NodeClasses \cup EdgeClasses

\* cls.__name__ ; the aliased subclass is renamed "Aliased<Name>"
ClassName(c) ==
    CASE c = "Page" -> "Page"
      [] c = "Linked" -> "Linked"
      [] c \in {"P", "Q"} -> "AliasedPage"
      [] c = "R" -> "AliasedLinked"
      [] c = "Web" -> "Web"
      [] c = "W" -> "AliasedWeb"
      [] c = "Follows" -> "Follows"

\* str.lower() on the class names that occur
Lower(s) ==
    CASE s = "Page" -> "page"
      [] s = "Linked" -> "linked"
      [] s = "AliasedPage" -> "aliasedpage"
      [] s = "AliasedLinked" -> "aliasedlinked"
      [] s = "Web" -> "web"
      [] s = "AliasedWeb" -> "aliasedweb"
      [] s = "WebPage" -> "webpage"
      [] s = "Follows" -> "follows"
      [] s = "FOLLOWS" -> "follows"
      [] OTHER -> s

\* hasattr(cls, "_alias")
HasAlias(c) == c \in {"P", "Q", "R", "W"}

\* cls._alias
ClassAlias(c) ==
    CASE c = "P" -> "p"
      [] c = "Q" -> "q"
      [] c = "R" -> "r"
      [] c = "W" -> "w"
      [] OTHER -> ""

\* cls.__bases__[0]
BaseClass(c) ==
    CASE c \in {"P", "Q"} -> "Page"
      [] c = "R" -> "Linked"
      [] c = "W" -> "Web"
      [] c \in {"Page", "Web"} -> "Node"
      [] c \in {"Linked", "Follows"} -> "Edge"

\* hasattr(cls, "__label__")
HasLabelAttr(c) == c \in {"Web", "W"}

\* Node.__init_subclass__ and Node.alias : the one element of cls.__labels__,
\* the explicit __label__ or else the name of the declared class
NodeLabel(c) == IF HasLabelAttr(c) THEN "WebPage" ELSE "Page"

\* Edge.__init_subclass__ and Edge.alias : cls.__relation__, the explicit
\* __relation_name__ or else the name of the declared class
EdgeRelation(c) ==
    IF c = "Follows" THEN "FOLLOWS" ELSE IF c = "R" THEN "Linked" ELSE ClassName(c)

\* hasattr(cls, "__labels__") / hasattr(cls, "__relation__")
HasLabels(c) == c \in NodeClasses
HasRelation(c) == c \in EdgeClasses

(***************************************************************************)
(* Values of the builder's arguments, as tagged records.                   *)
(***************************************************************************)
Cls(c) == [t |-> "cls", c |-> c]
Prop(c, n) == [t |-> "prop", node_class |-> c, name |-> n]
Func(n, a, l) == [t |-> "func", name |-> n, args |-> a, label |-> l]
Bin(l, o, r) == [t |-> "bin", left |-> l, operator |-> o, right |-> r]
AndE(l, r) == [t |-> "and", left |-> l, right |-> r]
OrE(l, r) == [t |-> "or", left |-> l, right |-> r]
\* the right operand of OrExpression(left), which is None
NoRight == [t |-> "none"]
Str(s) == [t |-> "str", s |-> s]
Pair(e, a) == [t |-> "pair", expr |-> e, alias |-> a]
Triple(s, e, d) == [t |-> "triple", src |-> s, edge |-> e, dst |-> d]
Raw(s) == [t |-> "RAW", s |-> s]
Optional(i) == [t |-> "OPTIONAL", item |-> i]
OrderBy(e, d) == [t |-> "order", expression |-> e, direction |-> d]

IsType(x) == x.t = "cls"

EmptyMap == [k \in {} |-> ""]

\* dict.update
Update(m, u) == [k \in DOMAIN m \cup DOMAIN u |-> IF k \in DOMAIN u THEN u[k] ELSE m[k]]

\* ", ".join over token sequences
RECURSIVE JoinWith(_, _)
JoinWith(seqs, sep) ==
    IF seqs = <<>> THEN <<>>
    ELSE IF Len(seqs) = 1 THEN seqs[1]
    ELSE seqs[1] \o <<sep>> \o JoinWith(Tail(seqs), sep)

RECURSIVE Flatten(_)
Flatten(seqs) == IF seqs = <<>> THEN <<>> ELSE seqs[1] \o Flatten(Tail(seqs))

(***************************************************************************)
(* property.py                                                             *)
(***************************************************************************)
\* Property._get_default_alias
PropertyDefaultAlias(p) ==
    IF HasAlias(p.node_class) THEN ClassAlias(p.node_class)
    ELSE Lower(ClassName(p.node_class))

\* Property.to_cypher(alias_map=...) ; Property._alias is None for
\* descriptors created by __init_subclass__
PropertyToCypher(p, alias_map) ==
    LET node_alias == IF p.node_class \in DOMAIN alias_map
                      THEN alias_map[p.node_class]
                      ELSE PropertyDefaultAlias(p)
    IN  node_alias \o "." \o p.name

(***************************************************************************)
(* expression.py                                                           *)
(***************************************************************************)
\* Function.to_cypher.format_arg
FormatArg(arg, alias_map) ==
    IF arg.t = "prop"
    THEN IF alias_map # EmptyMap THEN PropertyToCypher(arg, alias_map)
         ELSE PropertyToCypher(arg, EmptyMap)
    ELSE IF arg.t = "cls"
    THEN IF arg.c \in DOMAIN alias_map THEN alias_map[arg.c]
         ELSE Lower(ClassName(arg.c))
    ELSE arg.s

RECURSIVE JoinStr(_, _)
JoinStr(strs, sep) ==
    IF strs = <<>> THEN ""
    ELSE IF Len(strs) = 1 THEN strs[1]
    ELSE strs[1] \o sep \o JoinStr(Tail(strs), sep)

\* Function.to_cypher
FunctionToCypher(f, alias_map) ==
    LET Labelled(result) == IF f.label # "" THEN result \o <<"AS", f.label>> ELSE result
    IN  Labelled(<<f.name \o "("
                   \o JoinStr([i \in 1..Len(f.args) |-> FormatArg(f.args[i], alias_map)], ", ")
                   \o ")">>)

\* BinaryExpression._add_param_to_dict
AddParamToDict(value, params) ==
    LET param_num == Cardinality(DOMAIN params)
        param_name == "param_" \o ToString(param_num)
    IN  [name |-> param_name,
         params |-> Update(params, (param_name :> value))]

NoParamOperators == {"IS NULL", "IS NOT NULL"}

\* BinaryExpression.to_cypher
BinaryToCypher(e, params, alias_map) ==
    LET Compared(left_str, r) ==
            IF e.operator \in NoParamOperators
            THEN [toks |-> left_str \o <<e.operator>>, params |-> params]
            ELSE [toks |-> left_str \o <<e.operator, "$" \o r.name>>,
                  params |-> r.params]
    IN  Compared(IF e.left.t = "prop" THEN <<PropertyToCypher(e.left, alias_map)>>
                 ELSE IF e.left.t = "func" THEN FunctionToCypher(e.left, EmptyMap)
                 ELSE <<e.left.s>>,
                 AddParamToDict(e.right, params))

\* Property.__ne__, Function.__ne__ : the != operator on a property or a
\* function call
NotEqual(left, other) == Bin(left, "<>", other)

\* BinaryExpression.__and__, AndExpression.__and__, OrExpression.__and__
AndOperator(x, y) == AndE(x, y)

\* BinaryExpression.__or__, AndExpression.__or__, OrExpression.__or__
OrOperator(x, y) ==
    IF x.t = "or" /\ x.right.t = "none" THEN OrE(x.left, y) ELSE OrE(x, y)

AndOrTextBare(l, word, r) == [toks |-> l.toks \o <<word>> \o r.toks, params |-> r.params]

\* the text AndExpression.to_cypher and OrExpression.to_cypher return for
\* two serialized operands
AndOrText(l, word, r) ==
    [toks |-> <<"(">> \o l.toks \o <<word>> \o r.toks \o <<")">>, params |-> r.params]

\* AndExpression.to_cypher, OrExpression.to_cypher and the dispatch of a
\* condition on its type
RECURSIVE CondToCypher(_, _, _)
CondToCypher(e, params, alias_map) ==
    LET Right(l, word) == AndOrText(l, word, CondToCypher(e.right, l.params, alias_map))
    IN  IF e.t = "bin" THEN BinaryToCypher(e, params, alias_map)
        ELSE IF e.t = "and" THEN Right(CondToCypher(e.left, params, alias_map), "AND")
        ELSE IF e.t = "or"
        THEN IF e.right.t = "none" THEN CondToCypher(e.left, params, alias_map)
             ELSE Right(CondToCypher(e.left, params, alias_map), "OR")
        ELSE [toks |-> <<e.s>>, params |-> params]

\* OrderByExpression.to_cypher
OrderByToCypher(o, alias_map) ==
    LET expr_str == IF o.expression.t = "prop"
                    THEN <<PropertyToCypher(o.expression, alias_map)>>
                    ELSE IF o.expression.t = "func"
                    THEN FunctionToCypher(o.expression, alias_map)
                    ELSE <<o.expression.s>>
    IN  expr_str \o <<o.direction>>

(***************************************************************************)
(* select.py : Statement helpers                                           *)
(***************************************************************************)
VarLen(c, lo, hi) == [t |-> "varlen", edge_class |-> c, min_hops |-> lo, max_hops |-> hi]

\* None for an optional integer is the empty sequence, a value v is <<v>>
None == <<>>

\* Statement._get_alias_for_entity
GetAliasForEntity(entity) ==
    IF IsType(entity)
    THEN IF HasAlias(entity.c) THEN ClassAlias(entity.c)
         ELSE Lower(ClassName(entity.c))
    ELSE "n"

\* Statement._add_to_alias_map
AddToAliasMap(entity, alias_map) ==
    IF IsType(entity)
    THEN IF HasAlias(entity.c)
         THEN Update(alias_map, (entity.c :> ClassAlias(entity.c))
                                @@ (BaseClass(entity.c) :> ClassAlias(entity.c)))
         ELSE IF HasLabels(entity.c) \/ HasRelation(entity.c)
         THEN Update(alias_map, (entity.c :> GetAliasForEntity(entity)))
         ELSE alias_map
    ELSE alias_map

\* Statement._build_alias_map_from_match_clauses : one loop iteration
AliasMapStep(item, alias_map, include_edges) ==
    LET match_item == IF item.t = "OPTIONAL" THEN item.item ELSE item
        WithEdge(m) == IF include_edges /\ match_item.edge.t # "varlen"
                       THEN AddToAliasMap(match_item.edge, m)
                       ELSE m
    IN  IF item.t = "RAW" THEN alias_map
        ELSE IF match_item.t = "triple"
        THEN WithEdge(AddToAliasMap(match_item.dst,
                                    AddToAliasMap(match_item.src, alias_map)))
        ELSE AddToAliasMap(match_item, alias_map)

RECURSIVE AliasMapLoop(_, _, _)
AliasMapLoop(clauses, alias_map, include_edges) ==
    IF clauses = <<>> THEN alias_map
    ELSE AliasMapLoop(Tail(clauses),
                      AliasMapStep(clauses[1], alias_map, include_edges),
                      include_edges)

\* Statement._build_alias_map_from_match_clauses
BuildAliasMapFromMatchClauses(clauses, include_edges) ==
    AliasMapLoop(clauses, EmptyMap, include_edges)

RECURSIVE AddAllToAliasMap(_, _)
AddAllToAliasMap(entities, alias_map) ==
    IF entities = <<>> THEN alias_map
    ELSE AddAllToAliasMap(Tail(entities), AddToAliasMap(entities[1], alias_map))

\* Statement._get_label_from_class : __label__ when declared, else __name__
GetLabelFromClass(c) == IF HasLabelAttr(c) THEN NodeLabel(c) ELSE ClassName(c)

\* Statement._get_relation_from_class : __relation_name__, else __relation__
GetRelationFromClass(c) == EdgeRelation(c)

\* variable_length.py : VariableLength.__init__ ; ok is FALSE when the
\* constructor raises, val is then the message of the ValueError
VariableLengthInitNoOrderCheck(edge_class, min_hops, max_hops) ==
    IF min_hops # None /\ min_hops[1] < 0
    THEN [ok |-> FALSE, val |-> "min_hops must be >= 0"]
    ELSE IF max_hops # None /\ max_hops[1] < 0
    THEN [ok |-> FALSE, val |-> "max_hops must be >= 0"]
    ELSE [ok |-> TRUE, val |-> VarLen(edge_class, min_hops, max_hops)]

VariableLengthInit(edge_class, min_hops, max_hops) ==
    IF min_hops # None /\ min_hops[1] < 0
    THEN [ok |-> FALSE, val |-> "min_hops must be >= 0"]
    ELSE IF max_hops # None /\ max_hops[1] < 0
    THEN [ok |-> FALSE, val |-> "max_hops must be >= 0"]
    ELSE IF min_hops # None /\ max_hops # None /\ min_hops[1] > max_hops[1]
    THEN [ok |-> FALSE, val |-> "min_hops must be <= max_hops"]
    ELSE [ok |-> TRUE, val |-> VarLen(edge_class, min_hops, max_hops)]

VariableLengthEdgeToPatternAlwaysRange(v) ==
    LET relation == GetRelationFromClass(v.edge_class)
        min_h == v.min_hops
        max_h == v.max_hops
        suffix ==
            IF min_h = None /\ max_h = None THEN "*"
            ELSE IF min_h # None /\ max_h # None
            THEN "*" \o ToString(min_h[1]) \o ".." \o ToString(max_h[1])
            ELSE IF min_h # None THEN "*" \o ToString(min_h[1]) \o ".."
            ELSE "*"
    IN  "[:" \o relation \o suffix \o "]"

\* Statement._variable_length_edge_to_pattern
VariableLengthEdgeToPattern(v) ==
    LET relation == GetRelationFromClass(v.edge_class)
        min_h == v.min_hops
        max_h == v.max_hops
        suffix ==
            IF min_h = None /\ max_h = None THEN "*"
            ELSE IF min_h # None /\ max_h # None /\ min_h = max_h
            THEN "*" \o ToString(min_h[1])
            ELSE IF min_h # None /\ max_h # None
            THEN "*" \o ToString(min_h[1]) \o ".." \o ToString(max_h[1])
            ELSE IF min_h # None THEN "*" \o ToString(min_h[1]) \o ".."
            ELSE "*"
    IN  "[:" \o relation \o suffix \o "]"

\* Statement._edge_to_match_pattern ; None is the empty string (both falsy)
EdgeToMatchPattern(edge) ==
    IF edge.t = "varlen" THEN VariableLengthEdgeToPattern(edge)
    ELSE IF IsType(edge)
    THEN IF HasAlias(edge.c)
         THEN "[" \o ClassAlias(edge.c) \o ":" \o GetRelationFromClass(BaseClass(edge.c)) \o "]"
         ELSE IF HasRelation(edge.c)
         THEN "[" \o GetAliasForEntity(edge) \o ":" \o EdgeRelation(edge.c) \o "]"
         ELSE ""
    ELSE ""

\* Select._entity_to_match_pattern (Statement's is the same code)
RECURSIVE EntityToMatchPattern(_)
EntityToMatchPattern(entity) ==
    LET Joined(src_pattern, edge_pattern, dst_pattern) ==
            IF src_pattern # "" /\ edge_pattern # "" /\ dst_pattern # ""
            THEN src_pattern \o "-" \o edge_pattern \o "->" \o dst_pattern
            ELSE ""
    IN  IF entity.t = "triple"
        THEN Joined(EntityToMatchPattern(entity.src),
                    EdgeToMatchPattern(entity.edge),
                    EntityToMatchPattern(entity.dst))
        ELSE IF IsType(entity)
        THEN IF HasAlias(entity.c)
             THEN "(" \o ClassAlias(entity.c) \o ":" \o GetLabelFromClass(BaseClass(entity.c)) \o ")"
             ELSE IF HasLabels(entity.c)
             THEN "(" \o GetAliasForEntity(entity) \o ":" \o GetLabelFromClass(entity.c) \o ")"
             ELSE ""
        ELSE IF entity.t = "str" THEN entity.s
        ELSE ""

(***************************************************************************)
(* select.py : clause builders shared by Select and Delete                 *)
(***************************************************************************)
\* the loop over match clauses of to_cypher: patterns that go to MATCH
RECURSIVE MatchPatternsOf(_)
MatchPatternsOf(clauses) ==
    LET Cons(pattern, raw, rest) == IF raw \/ pattern # "" THEN <<pattern>> \o rest ELSE rest
    IN  IF clauses = <<>> THEN <<>>
        ELSE Cons(IF clauses[1].t = "OPTIONAL" THEN ""
                  ELSE IF clauses[1].t = "RAW" THEN clauses[1].s
                  ELSE EntityToMatchPattern(clauses[1]),
                  clauses[1].t = "RAW",
                  MatchPatternsOf(Tail(clauses)))

\* the loop over match clauses of to_cypher: patterns that go to OPTIONAL MATCH
RECURSIVE OptionalPatternsOf(_)
OptionalPatternsOf(clauses) ==
    LET Cons(pattern, rest) == IF pattern # "" THEN <<pattern>> \o rest ELSE rest
    IN  IF clauses = <<>> THEN <<>>
        ELSE Cons(IF clauses[1].t = "OPTIONAL"
                  THEN EntityToMatchPattern(clauses[1].item)
                  ELSE "",
                  OptionalPatternsOf(Tail(clauses)))

InSeq(x, seq) == \E i \in 1..Len(seq) : seq[i] = x

\* fallback of to_cypher: patterns from the constructor's entities
RECURSIVE EntityPatterns(_, _)
EntityPatterns(entities, match_patterns) ==
    LET Added(pattern) == IF pattern # "" /\ ~InSeq(pattern, match_patterns)
                          THEN Append(match_patterns, pattern)
                          ELSE match_patterns
    IN  IF entities = <<>> THEN match_patterns
        ELSE EntityPatterns(Tail(entities), Added(EntityToMatchPattern(entities[1])))

\* "KW " + ", ".join(items) as one part
ClausePart(kw, items) ==
    <<kw>> \o JoinWith([i \in 1..Len(items) |-> <<items[i]>>], ",")

\* one part per OPTIONAL MATCH pattern
OptionalParts(patterns) ==
    [i \in 1..Len(patterns) |-> <<"OPTIONAL MATCH", patterns[i]>>]

\* Select.to_cypher / Delete.to_cypher : MATCH and OPTIONAL MATCH parts
MatchParts(s) ==
    LET Parts(match_patterns, optional_patterns) ==
            (IF match_patterns # <<>> THEN <<ClausePart("MATCH", match_patterns)>> ELSE <<>>)
            \o OptionalParts(optional_patterns)
        Fallback(direct, optional_patterns) ==
            Parts(IF direct = <<>> /\ optional_patterns = <<>> /\ s.entities # <<>>
                  THEN EntityPatterns(s.entities, direct)
                  ELSE direct,
                  optional_patterns)
    IN  Fallback(MatchPatternsOf(s.match_clauses), OptionalPatternsOf(s.match_clauses))

\* the loop of _build_where_clause; params is the dict self._params
RECURSIVE WhereLoop(_, _, _)
WhereLoop(where_clauses, params, alias_map) ==
    LET Cons(c, rest) == [where_parts |-> <<c.toks>> \o rest.where_parts,
                          params |-> rest.params]
        Rest(c) == Cons(c, WhereLoop(Tail(where_clauses), c.params, alias_map))
    IN  IF where_clauses = <<>> THEN [where_parts |-> <<>>, params |-> params]
        ELSE Rest(CondToCypher(where_clauses[1], params, alias_map))

\* Statement._build_where_clause(alias_map, where_clauses) ; "" is <<>>
BuildWhereClause(s, params, alias_map, where_clauses) ==
    LET Clause(w) == [part |-> <<"WHERE">> \o JoinWith(w.where_parts, "AND"),
                      params |-> w.params]
    IN  IF where_clauses = <<>> THEN [part |-> <<>>, params |-> params]
        ELSE Clause(WhereLoop(where_clauses, params,
                              IF alias_map = EmptyMap
                              THEN BuildAliasMapFromMatchClauses(s.match_clauses, FALSE)
                              ELSE alias_map))

\* Statement._format_expression
FormatExpression(s, expr, params, alias_map) ==
    IF expr.t = "func" THEN [toks |-> FunctionToCypher(expr, alias_map), params |-> params]
    ELSE IF expr.t = "prop" THEN [toks |-> <<PropertyToCypher(expr, alias_map)>>, params |-> params]
    ELSE IF expr.t \in {"bin", "and", "or"} THEN CondToCypher(expr, params, alias_map)
    ELSE IF IsType(expr) THEN [toks |-> <<GetAliasForEntity(expr)>>, params |-> params]
    ELSE [toks |-> <<expr.s>>, params |-> params]

\* one iteration of the loop of _build_with_clause
WithItem(s, expr, params, alias_map) ==
    LET Item(f) ==
            IF expr.t = "pair"
            THEN [toks |-> f.toks \o <<"AS", expr.alias>>,
                  params |-> f.params,
                  for_with |-> IF expr.expr.t = "prop"
                               THEN (expr.expr.node_class :> expr.alias)
                               ELSE EmptyMap]
            ELSE [toks |-> f.toks, params |-> f.params, for_with |-> EmptyMap]
    IN  Item(FormatExpression(s, IF expr.t = "pair" THEN expr.expr ELSE expr,
                              params, alias_map))

RECURSIVE WithLoop(_, _, _, _)
WithLoop(s, with_clauses, params, alias_map) ==
    LET Cons(i, rest) == [with_parts |-> <<i.toks>> \o rest.with_parts,
                          params |-> rest.params,
                          for_with |-> Update(i.for_with, rest.for_with)]
        Rest(i) == Cons(i, WithLoop(s, Tail(with_clauses), i.params, alias_map))
    IN  IF with_clauses = <<>>
        THEN [with_parts |-> <<>>, params |-> params, for_with |-> EmptyMap]
        ELSE Rest(WithItem(s, with_clauses[1], params, alias_map))

\* Statement._build_with_clause(alias_map): the part, the params, the
\* caller's alias_map after the in-place update, and self._alias_map
BuildWithClause(s, params, alias_map, self_alias_map) ==
    LET Clause(w) == [part |-> <<"WITH">> \o JoinWith(w.with_parts, ","),
                      params |-> w.params,
                      alias_map |-> Update(alias_map, w.for_with),
                      self_alias_map |-> Update(self_alias_map, w.for_with)]
    IN  IF s.with_clauses = <<>>
        THEN [part |-> <<>>, params |-> params,
              alias_map |-> alias_map, self_alias_map |-> self_alias_map]
        ELSE Clause(WithLoop(s, s.with_clauses, params, alias_map))

(***************************************************************************)
(* select.py : Select.to_cypher                                            *)
(***************************************************************************)
\* to_cypher: the alias map built from the match clauses, else the entities
InitialAliasMap(s, include_edges) ==
    LET OrEntities(alias_map) ==
            IF alias_map = EmptyMap THEN AddAllToAliasMap(s.entities, alias_map)
            ELSE alias_map
    IN  OrEntities(BuildAliasMapFromMatchClauses(s.match_clauses, include_edges))

\* to_cypher: MATCH / OPTIONAL MATCH / WHERE after WITH
PostWithMatch(s, params, alias_map, self_alias_map) ==
    LET Parts(match_patterns_after, optional_patterns_after, w, am, alias_map_from_after) ==
            [parts |-> (IF match_patterns_after # <<>>
                        THEN <<ClausePart("MATCH", match_patterns_after)>> ELSE <<>>)
                       \o OptionalParts(optional_patterns_after)
                       \o (IF w.part # <<>> THEN <<w.part>> ELSE <<>>),
             params |-> w.params,
             alias_map |-> am,
             self_alias_map |-> Update(self_alias_map, alias_map_from_after)]
        WhereAfter(am, alias_map_from_after) ==
            Parts(MatchPatternsOf(s.match_clauses_after_with),
                  OptionalPatternsOf(s.match_clauses_after_with),
                  BuildWhereClause(s, params, am, s.where_after_match_after_with),
                  am, alias_map_from_after)
        Merged(alias_map_from_after) ==
            WhereAfter(Update(alias_map, alias_map_from_after), alias_map_from_after)
    IN  IF s.match_clauses_after_with = <<>>
        THEN [parts |-> <<>>, params |-> params,
              alias_map |-> alias_map, self_alias_map |-> self_alias_map]
        ELSE Merged(BuildAliasMapFromMatchClauses(s.match_clauses_after_with, FALSE))

\* to_cypher: REMOVE ; the items are strings
RemoveParts(s) ==
    IF s.remove_clauses # <<>>
    THEN <<ClausePart("REMOVE", [i \in 1..Len(s.remove_clauses) |-> s.remove_clauses[i].s])>>
    ELSE <<>>

\* to_cypher: entities of the match patterns for the automatic RETURN
RECURSIVE AutoReturn(_)
AutoReturn(clauses) ==
    IF clauses = <<>> THEN <<>>
    ELSE LET match_item == IF clauses[1].t = "OPTIONAL" THEN clauses[1].item ELSE clauses[1]
             rest == AutoReturn(Tail(clauses))
         IN  IF match_item.t = "triple" THEN <<match_item.src, match_item.dst>> \o rest
             ELSE IF IsType(match_item) THEN <<match_item>> \o rest
             ELSE rest

\* to_cypher: "return all matched entities" when the list is still empty
RECURSIVE AllEntities(_)
AllEntities(clauses) ==
    IF clauses = <<>> THEN <<>>
    ELSE LET match_item == IF clauses[1].t = "OPTIONAL" THEN clauses[1].item ELSE clauses[1]
             rest == AllEntities(Tail(clauses))
         IN  IF match_item.t = "triple"
             THEN (IF IsType(match_item.src) THEN <<match_item.src>> ELSE <<>>)
                  \o (IF IsType(match_item.dst) THEN <<match_item.dst>> ELSE <<>>)
                  \o rest
             ELSE IF IsType(match_item) THEN <<match_item>> \o rest
             ELSE rest

\* to_cypher: the value of self._return_clauses after the RETURN derivation
ReturnClausesAfter(s) ==
    LET OrElse(clauses, other) == IF clauses # <<>> THEN clauses ELSE other
        OrAll(rc1) == IF rc1 = <<>>
                      THEN OrElse(AllEntities(s.match_clauses), <<Str("*")>>)
                      ELSE rc1
    IN  OrAll(IF ~s.returns_explicitly_set /\ s.return_clauses = <<>>
              THEN IF s.match_clauses # <<>>
                   THEN OrElse(AutoReturn(s.match_clauses), s.entities)
                   ELSE s.entities
              ELSE s.return_clauses)

\* to_cypher: one item of the RETURN clause
ReturnItem(s, expr, alias_map) ==
    IF expr.t = "str" THEN <<expr.s>>
    ELSE IF expr.t = "func"
    THEN IF expr.label # "" /\ s.with_called THEN <<expr.label>>
         ELSE FunctionToCypher(expr, alias_map)
    ELSE IF expr.t = "prop" THEN <<PropertyToCypher(expr, alias_map)>>
    ELSE <<GetAliasForEntity(expr)>>

\* to_cypher: the alias map RETURN and ORDER BY serialize with
FlowAliasMap(s, alias_map) ==
    IF ~(s.with_called \/ s.match_clauses_after_with # <<>>)
    THEN InitialAliasMap(s, TRUE)
    ELSE alias_map

\* to_cypher: RETURN
ReturnParts(s, return_clauses, alias_map) ==
    LET Items(am) == [i \in 1..Len(return_clauses) |-> ReturnItem(s, return_clauses[i], am)]
    IN  IF return_clauses # <<>>
        THEN <<(IF s.distinct THEN <<"RETURN", "DISTINCT">> ELSE <<"RETURN">>)
               \o JoinWith(Items(FlowAliasMap(s, alias_map)), ",")>>
        ELSE <<>>

\* to_cypher: ORDER BY
OrderByParts(s, alias_map) ==
    LET Items(am) == [i \in 1..Len(s.order_by_clauses) |->
                         OrderByToCypher(s.order_by_clauses[i], am)]
    IN  IF s.order_by_clauses # <<>>
        THEN <<<<"ORDER BY">> \o JoinWith(Items(FlowAliasMap(s, alias_map)), ",")>>
        ELSE <<>>

LimitSkipParts(s) ==
    (IF s.limit_value # None THEN <<<<"LIMIT", ToString(s.limit_value[1])>>>> ELSE <<>>)
    \o (IF s.skip_value # None THEN <<<<"SKIP", ToString(s.skip_value[1])>>>> ELSE <<>>)

\* to_cypher: SKIP then LIMIT
SkipLimitParts(s) ==
    (IF s.skip_value # None THEN <<<<"SKIP", ToString(s.skip_value[1])>>>> ELSE <<>>)
    \o (IF s.limit_value # None THEN <<<<"LIMIT", ToString(s.limit_value[1])>>>> ELSE <<>>)

OptPart(part) == IF part # <<>> THEN <<part>> ELSE <<>>

\* Select.to_cypher : the returned parts and the statement after the call
SelectToCypher(s) ==
    LET Result(where_before_with, with_clause, where_after_with, after, return_clauses) ==
            [parts |-> MatchParts(s)
                       \o OptPart(where_before_with.part)
                       \o OptPart(with_clause.part)
                       \o OptPart(where_after_with.part)
                       \o after.parts
                       \o RemoveParts(s)
                       \o ReturnParts(s, return_clauses, after.alias_map)
                       \o OrderByParts(s, after.alias_map)
                       \o SkipLimitParts(s),
             stmt |-> [s EXCEPT !.params = after.params,
                                !.alias_map = after.self_alias_map,
                                !.return_clauses = return_clauses]]
        AfterWith(where_before_with, with_clause, where_after_with, alias_map1) ==
            Result(where_before_with, with_clause, where_after_with,
                   PostWithMatch(s, where_after_with.params, alias_map1,
                                 with_clause.self_alias_map),
                   ReturnClausesAfter(s))
        WhereAfterWith(where_before_with, with_clause, alias_map1) ==
            AfterWith(where_before_with, with_clause,
                      BuildWhereClause(s, with_clause.params, alias_map1, s.where_after_with),
                      alias_map1)
        WithClause(where_before_with, with_clause) ==
            WhereAfterWith(where_before_with, with_clause,
                           IF with_clause.part # <<>> THEN with_clause.self_alias_map
                           ELSE with_clause.alias_map)
        WhereBeforeWith(alias_map, where_before_with) ==
            WithClause(where_before_with,
                       BuildWithClause(s, where_before_with.params, alias_map,
                                       Update(s.alias_map, alias_map)))
        Start(alias_map) ==
            WhereBeforeWith(alias_map,
                            BuildWhereClause(s, s.params, alias_map, s.where_clauses))
    IN  Start(InitialAliasMap(s, FALSE))

(***************************************************************************)
(* delete.py : Delete.to_cypher                                            *)
(***************************************************************************)
AppendNew(seq, x) == IF InSeq(x, seq) THEN seq ELSE Append(seq, x)

\* to_cypher: the alias of a delete target, when the slot holds a class
TargetOf(entity, delete_targets) ==
    IF IsType(entity) THEN AppendNew(delete_targets, GetAliasForEntity(entity))
    ELSE delete_targets

\* to_cypher: delete targets extracted from the match patterns
RECURSIVE MatchTargets(_, _)
MatchTargets(clauses, delete_targets) ==
    IF clauses = <<>> THEN delete_targets
    ELSE LET match_item == clauses[1]
         IN  MatchTargets(Tail(clauses),
                 IF match_item.t \in {"OPTIONAL", "RAW"} THEN delete_targets
                 ELSE IF match_item.t = "triple"
                 THEN TargetOf(match_item.dst,
                          TargetOf(match_item.edge,
                              TargetOf(match_item.src, delete_targets)))
                 ELSE TargetOf(match_item, delete_targets))

\* to_cypher: delete targets from the constructor's entities
RECURSIVE EntityTargets(_, _)
EntityTargets(entities, delete_targets) ==
    IF entities = <<>> THEN delete_targets
    ELSE EntityTargets(Tail(entities),
             IF IsType(entities[1])
             THEN AppendNew(delete_targets, GetAliasForEntity(entities[1]))
             ELSE AppendNew(delete_targets, entities[1].s))

\* to_cypher: the DELETE / DETACH DELETE part
DeletePart(s) ==
    LET OrDefault(delete_targets) ==
            ClausePart(IF s.detach THEN "DETACH DELETE" ELSE "DELETE",
                       IF delete_targets = <<>> THEN <<"n">> ELSE delete_targets)
        OrEntities(delete_targets) ==
            OrDefault(IF delete_targets = <<>> /\ s.entities # <<>>
                      THEN EntityTargets(s.entities, delete_targets)
                      ELSE delete_targets)
    IN  OrEntities(MatchTargets(s.match_clauses, <<>>))

\* to_cypher: one item of Delete's RETURN clause
DeleteReturnItem(expr, alias_map) ==
    IF expr.t = "str" THEN <<expr.s>>
    ELSE IF expr.t = "func" THEN FunctionToCypher(expr, alias_map)
    ELSE IF expr.t = "prop" THEN <<PropertyToCypher(expr, alias_map)>>
    ELSE <<GetAliasForEntity(expr)>>

\* to_cypher: WITH (built first) and the only WHERE clause Delete emits
DeleteWithWhere(s) ==
    LET Result(with_clause, where_clause, alias_map, self1) ==
            [parts |-> OptPart(with_clause.part) \o OptPart(where_clause.part),
             params |-> where_clause.params,
             alias_map |-> alias_map,
             self_alias_map |-> self1]
        WhereClause(with_clause, alias_map) ==
            Result(with_clause,
                   BuildWhereClause(s, with_clause.params, alias_map, s.where_clauses),
                   alias_map,
                   IF with_clause.part # <<>> THEN with_clause.self_alias_map
                   ELSE Update(s.alias_map, alias_map))
        WithClause(with_clause) ==
            WhereClause(with_clause,
                        IF with_clause.part # <<>> THEN with_clause.self_alias_map
                        ELSE InitialAliasMap(s, FALSE))
    IN  WithClause(BuildWithClause(s, s.params, s.alias_map, s.alias_map))

\* Delete.to_cypher : the returned parts and the statement after the call
DeleteToCypher(s) ==
    LET Result(ww) ==
            [parts |-> MatchParts(s) \o ww.parts \o <<DeletePart(s)>>
                       \o (IF s.return_clauses # <<>>
                           THEN <<<<"RETURN">> \o JoinWith([i \in 1..Len(s.return_clauses) |->
                                    DeleteReturnItem(s.return_clauses[i], ww.alias_map)], ",")>>
                           ELSE <<>>),
             stmt |-> [s EXCEPT !.params = ww.params,
                                !.alias_map = ww.self_alias_map]]
    IN  Result(DeleteWithWhere(s))

ToCypherOf(s) == IF s.kind = "select" THEN SelectToCypher(s) ELSE DeleteToCypher(s)

\* the text of a compile: the parts joined
Text(parts) == Flatten(parts)

(***************************************************************************)
(* The arguments the builder calls are tried with.                         *)
(***************************************************************************)
PPath == Prop("P", "path")
PagePath == Prop("Page", "path")
OutDeg == Func("OUTDEGREE", <<Cls("P")>>, "")
CountR == Func("COUNT", <<Cls("R")>>, "c")

MatchArgs ==
    { Cls("Page"), Cls("P"), Cls("Linked"),
      Triple(Cls("P"), Cls("R"), Cls("Q")),
      Str("(x)-[:Linked*1..2]->(y)") }

OptionalMatchArgs == { Cls("Q") }

WhereArgs ==
    { Bin(PPath, "=", 1),
      AndE(Bin(PagePath, "<>", 2), Bin(PPath, "IS NULL", 0)),
      Bin(CountR, ">", 3),
      Bin(OutDeg, ">", 4) }

WithArgs ==
    { <<>>,
      <<Pair(Cls("P"), "x")>>,
      <<Cls("P"), CountR>> }

ReturnsArgs == { <<PPath, CountR>> }

OrderByArgs == { OrderBy(PPath, "ASC") }
LimitArgs == { 10 }
SkipArgs == { 5 }
RemoveArgs == { Str("p.error") }
\* select() is built without entities (the constructor's entities are kept
\* for backward compatibility only); delete() with or without one
EntitiesArgs(kind) == IF kind = "select" THEN { <<>> } ELSE { <<>>, <<Cls("P")>> }

(***************************************************************************)
(* State: the statement object, the text of the last and of the previous   *)
(* to_cypher() call, and the log of the builder calls made so far.         *)
(***************************************************************************)
\* Statement.__init__, Select.__init__, Delete.__init__
NewStatement(kind, entities) ==
    [kind |-> kind,
     match_clauses |-> <<>>,
     where_clauses |-> <<>>,
     where_after_with |-> <<>>,
     match_clauses_after_with |-> <<>>,
     where_after_match_after_with |-> <<>>,
     with_clauses |-> <<>>,
     params |-> EmptyMap,
     alias_map |-> EmptyMap,
     with_called |-> FALSE,
     entities |-> entities,
     return_clauses |-> <<>>,
     order_by_clauses |-> <<>>,
     limit_value |-> None,
     skip_value |-> None,
     remove_clauses |-> <<>>,
     distinct |-> FALSE,
     returns_explicitly_set |-> FALSE,
     detach |-> FALSE]

Init ==
    /\ \E kind \in {"select", "delete"} : \E entities \in EntitiesArgs(kind) :
          stmt = NewStatement(kind, entities)
    /\ out = <<>>
    /\ prev = <<>>
    /\ fresh = "new"
    /\ compiles = 0
    /\ hist = <<>>
    /\ call = NoCall
    /\ ret = ""
    /\ graph = NewGraph
    /\ tx = NoTransaction
    /\ driver = NewDriver
    /\ threads = NoThreads

\* with_() is among the calls logged so far
WithCalledBefore == \E i \in 1..Len(hist) : hist[i].op = "with_"

\* a builder call: log it, the last text no longer describes the statement
Called(op, arg) ==
    /\ Len(hist) < MaxCalls
    /\ compiles > 0 => Len(hist) < MaxResume
    /\ hist' = Append(hist, [op |-> op, arg |-> arg, ww |-> WithCalledBefore])
    /\ fresh' = "dirty"
    /\ UNCHANGED <<out, prev, compiles, call, ret, graph, tx, driver, threads>>

MatchTargetNoRouting(s) == "match_clauses"

\* Statement.match : the list the patterns are appended to
MatchTarget(s) == IF s.with_called THEN "match_clauses_after_with" ELSE "match_clauses"

\* Statement.match
Match ==
    \E pattern \in MatchArgs :
        /\ Called("match", pattern)
        /\ LET item == IF pattern.t = "str" THEN Raw(pattern.s) ELSE pattern
           IN  stmt' = [stmt EXCEPT ![MatchTarget(stmt)] = Append(@, item)]

\* Statement.optional_match
OptionalMatch ==
    \E entity \in OptionalMatchArgs :
        /\ Called("optional_match", entity)
        /\ stmt' = [stmt EXCEPT !.match_clauses = Append(@, Optional(entity))]

WhereTargetNoRouting(s) == "where_clauses"

\* Statement.where : the list the conditions are appended to
WhereTarget(s) ==
    IF s.with_called /\ Len(s.match_clauses_after_with) > 0
    THEN "where_after_match_after_with"
    ELSE IF s.with_called THEN "where_after_with"
    ELSE "where_clauses"

\* Statement.where
Where ==
    \E condition \in WhereArgs :
        /\ Called("where", condition)
        /\ stmt' = [stmt EXCEPT ![WhereTarget(stmt)] = Append(@, condition)]

\* Statement.with_
With ==
    \E expressions \in WithArgs :
        /\ Called("with_", expressions)
        /\ stmt' = [stmt EXCEPT !.with_clauses = @ \o expressions,
                                !.with_called = TRUE]

\* Select.returns / Delete.returns
Returns ==
    \E expressions \in ReturnsArgs :
        /\ Called("returns", expressions)
        /\ stmt' = IF stmt.kind = "delete"
                   THEN [stmt EXCEPT !.return_clauses = expressions]
                   ELSE [stmt EXCEPT !.returns_explicitly_set = TRUE,
                                     !.return_clauses =
                                         IF expressions # <<>> THEN expressions
                                         ELSE IF @ = <<>> THEN stmt.entities
                                         ELSE @]

\* Select.orderby
OrderByCall ==
    \E expression \in OrderByArgs :
        /\ stmt.kind = "select"
        /\ Called("orderby", expression)
        /\ stmt' = [stmt EXCEPT !.order_by_clauses = Append(@, expression)]

\* Select.limit
Limit ==
    \E count \in LimitArgs :
        /\ stmt.kind = "select"
        /\ Called("limit", count)
        /\ stmt' = [stmt EXCEPT !.limit_value = <<count>>]

\* Select.skip
Skip ==
    \E count \in SkipArgs :
        /\ stmt.kind = "select"
        /\ Called("skip", count)
        /\ stmt' = [stmt EXCEPT !.skip_value = <<count>>]

\* Select.remove
Remove ==
    \E expression \in RemoveArgs :
        /\ stmt.kind = "select"
        /\ Called("remove", expression)
        /\ stmt' = [stmt EXCEPT !.remove_clauses = Append(@, expression)]

\* Delete.detach
Detach ==
    /\ stmt.kind = "delete"
    /\ Called("detach", Str(""))
    /\ stmt' = [stmt EXCEPT !.detach = TRUE]

\* Select.to_cypher / Delete.to_cypher
ToCypher ==
    /\ compiles < MaxCompiles
    /\ compiles > 0 => Len(hist) <= MaxResume
    /\ \E r \in {ToCypherOf(stmt)} :
           /\ stmt' = r.stmt
           /\ out' = r.parts
    /\ prev' = out
    /\ fresh' = IF fresh = "dirty" \/ fresh = "new" THEN "once" ELSE "twice"
    /\ compiles' = compiles + 1
    /\ UNCHANGED <<hist, call, ret, graph, tx, driver, threads>>

Next ==
    \/ Match
    \/ OptionalMatch
    \/ Where
    \/ With
    \/ Returns
    \/ OrderByCall
    \/ Limit
    \/ Skip
    \/ Remove
    \/ Detach
    \/ ToCypher

Spec == Init /\ [][Next]_vars

\* the last text is that of a to_cypher() call on the statement as it is
Compiled == fresh \in {"once", "twice"}

(***************************************************************************)
(* Reading the compiled text.                                              *)
(***************************************************************************)
Range(seq) == {seq[i] : i \in 1..Len(seq)}

\* every name _add_param_to_dict can generate within the bounds
ParamNames == {"param_" \o ToString(n) : n \in 0..(2 * MaxCalls * MaxCompiles)}

IsPlaceholder(tok) == \E k \in ParamNames : tok = "$" \o k

\* the placeholders of the last text, in the order they occur
Placeholders == SelectSeq(Text(out), IsPlaceholder)

\* the keyword each part of the last text starts with
Keyword(j) == out[j][1]

PartsOf(kws) == {j \in 1..Len(out) : Keyword(j) \in kws}

\* the index of the WITH part of the last text, 0 when it has none
WithIdx == IF PartsOf({"WITH"}) = {} THEN 0 ELSE CHOOSE j \in PartsOf({"WITH"}) : TRUE

\* part j holds a placeholder bound to value v
HoldsValue(j, v) ==
    \E k \in DOMAIN stmt.params : ("$" \o k) \in Range(out[j]) /\ stmt.params[k] = v

\* the right operands of the parameterized comparisons of a condition
RECURSIVE ValuesOf(_)
ValuesOf(e) ==
    IF e.t = "bin" THEN IF e.operator \in NoParamOperators THEN {} ELSE {e.right}
    ELSE IF e.t \in {"and", "or"} THEN ValuesOf(e.left) \cup ValuesOf(e.right)
    ELSE {}

\* the comparisons of a condition
RECURSIVE BinsOf(_)
BinsOf(e) ==
    IF e.t = "bin" THEN {e}
    ELSE IF e.t \in {"and", "or"} THEN BinsOf(e.left) \cup BinsOf(e.right)
    ELSE {}

\* the text a pattern passed to match() lowers to ("" when it has none)
LoweredArg(arg) == IF arg.t = "str" THEN arg.s ELSE EntityToMatchPattern(arg)

HistCalls(ops) == {i \in 1..Len(hist) : hist[i].op \in ops}

(***************************************************************************)
(* C1  Two to_cypher() calls in a row, no builder call in between, return  *)
(*     the same text, placeholder names included.                          *)
(***************************************************************************)
C1_CompileTwiceSameText == fresh = "twice" => Text(out) = Text(prev)

(***************************************************************************)
(* C2  After every to_cypher() call the keys of get_params() are exactly   *)
(*     the placeholder names that occur in the text the call returned.     *)
(***************************************************************************)
C2_ParamsKeysAreTextPlaceholders ==
    Compiled => {"$" \o k : k \in DOMAIN stmt.params} = Range(Placeholders)

(***************************************************************************)
(* C3  The placeholders of the compiled text are param_0 .. param_{k-1},   *)
(*     numbered in the order they occur in the text.                       *)
(***************************************************************************)
C3_PlaceholdersNumberedFromZero ==
    Compiled => \A i \in 1..Len(Placeholders) :
                    Placeholders[i] = "$param_" \o ToString(i - 1)

(***************************************************************************)
(* C4  A pattern passed to Select.match() after with_() is never emitted   *)
(*     before the WITH clause: it is in a MATCH clause after WITH.  Stated *)
(*     of the patterns that lower to text; a pattern found before WITH was *)
(*     passed before with_() as well.                                      *)
(***************************************************************************)
\* the patterns the clauses before WITH may come from
PreWithPatterns ==
    {LoweredArg(hist[i].arg) : i \in {k \in HistCalls({"match"}) : ~hist[k].ww}}
    \cup {LoweredArg(hist[i].arg) : i \in HistCalls({"optional_match"})}

ClauseOrder ==
    <<"MATCH", "OPTIONAL MATCH", "WHERE", "WITH", "WHERE", "MATCH", "WHERE",
      "REMOVE", "RETURN", "ORDER BY", "SKIP", "LIMIT">>

\* the keywords kws[from..] fit, in order, into the slots ClauseOrder[slot..];
\* one OPTIONAL MATCH clause is emitted per pattern, so that slot repeats
RECURSIVE FitsOrder(_, _, _)
FitsOrder(kws, from, slot) ==
    IF from > Len(kws) THEN TRUE
    ELSE LET fit == {n \in slot..Len(ClauseOrder) : ClauseOrder[n] = kws[from]}
         IN  /\ fit # {}
             /\ LET n == CHOOSE m \in fit : \A o \in fit : m <= o
                IN  FitsOrder(kws, from + 1,
                              IF ClauseOrder[n] = "OPTIONAL MATCH" THEN n ELSE n + 1)

C5_ClausesInFixedOrder ==
    (Compiled /\ stmt.kind = "select") =>
        /\ FitsOrder([j \in 1..Len(out) |-> Keyword(j)], 1, 1)
        /\ \A j \in PartsOf({"SKIP"}), k \in PartsOf({"LIMIT"}) : j < k

\* limit() was called before skip(), and both clauses are in the text
C5_Witness ==
    /\ Compiled /\ stmt.kind = "select"
    /\ \E i \in HistCalls({"limit"}), k \in HistCalls({"skip"}) : i < k
    /\ PartsOf({"SKIP"}) # {} /\ PartsOf({"LIMIT"}) # {}

(***************************************************************************)
(* C6  A compiled Delete with a where() condition added before with_() and *)
(*     a WITH projection has its WHERE clause before the WITH clause and   *)
(*     the delete clause after both.                                       *)
(***************************************************************************)
C6_DeleteWhereBeforeWith ==
    (/\ Compiled /\ stmt.kind = "delete"
     /\ \E i \in HistCalls({"where"}) : ~hist[i].ww
     /\ stmt.with_clauses # <<>>) =>
        \E i \in PartsOf({"WHERE"}), k \in PartsOf({"DELETE", "DETACH DELETE"}) :
            i < WithIdx /\ WithIdx < k

(***************************************************************************)
(* C7  A condition passed to Select.where() before with_() is emitted in   *)
(*     the WHERE clause before WITH; one passed after with_() in a WHERE   *)
(*     clause after WITH, and after the post-WITH MATCH when a match()     *)
(*     call came between with_() and that where().  A condition is found   *)
(*     in the text by the value its placeholder is bound to.               *)
(***************************************************************************)
\* a match() call lies between with_() and call i
MatchSinceWith(i) == \E k \in HistCalls({"match"}) : k < i /\ hist[k].ww

\* the WHERE parts that hold condition value v in the place call i asks for
WhereHome(i, v) ==
    {j \in PartsOf({"WHERE"}) :
        /\ HoldsValue(j, v)
        /\ IF ~hist[i].ww
           THEN WithIdx > 0 => j < WithIdx
           ELSE /\ j > WithIdx
                /\ MatchSinceWith(i) => \A m \in PartsOf({"MATCH"}) : m < j}

C7_WhereRoutedByWith ==
    (Compiled /\ stmt.kind = "select") =>
        /\ \A i \in HistCalls({"where"}) :
               \A v \in ValuesOf(hist[i].arg) : WhereHome(i, v) # {}
        /\ \A i, k \in HistCalls({"where"}) :
               (~hist[i].ww /\ hist[k].ww) =>
                   \A v \in ValuesOf(hist[i].arg), w \in ValuesOf(hist[k].arg) :
                       \E j \in WhereHome(i, v), l \in WhereHome(k, w) : j < l

\* where(a).with_(..).where(b) compiled: a WHERE on either side of WITH
C7_Witness ==
    /\ Compiled /\ stmt.kind = "select" /\ WithIdx > 0
    /\ \E i, k \in HistCalls({"where"}) :
          /\ ~hist[i].ww /\ hist[k].ww
          /\ ValuesOf(hist[i].arg) # {} /\ ValuesOf(hist[k].arg) # {}
    /\ \E j \in PartsOf({"WHERE"}) : j < WithIdx
    /\ \E j \in PartsOf({"WHERE"}) : j > WithIdx

(***************************************************************************)
(* C8  Within one compile, an entity matched under an alias is referred to *)
(*     by that alias in every later phase, as a field reference and as a   *)
(*     function argument alike, unless a WITH item rebinds it.  Stated of  *)
(*     the conditions of where(): each comparison whose left side refers   *)
(*     to an entity matched before WITH is in the text with that entity's  *)
(*     alias.                                                              *)
(***************************************************************************)
\* the classes passed on their own to match() before with_()
MatchedSingles ==
    {hist[i].arg.c : i \in {k \in HistCalls({"match"}) :
                                ~hist[k].ww /\ hist[k].arg.t = "cls"
                                /\ EntityToMatchPattern(hist[k].arg) # ""}}

\* the left side of comparison b refers to class c
RefersTo(b, c) ==
    \/ b.left.t = "prop" /\ b.left.node_class = c
    \/ b.left.t = "func" /\ \E n \in 1..Len(b.left.args) : b.left.args[n] = Cls(c)

\* the left side of comparison b, written with c under the alias of its pattern
ExpectedLeft(b, c) ==
    LET m == (c :> GetAliasForEntity(Cls(c)))
    IN  IF b.left.t = "prop" THEN PropertyToCypher(b.left, m)
        ELSE FunctionToCypher(b.left, m)[1]

\* no item of with_() gives an entity a new alias
NoRebind == \A n \in 1..Len(stmt.with_clauses) : stmt.with_clauses[n].t # "pair"

C8_LaterPhasesUseMatchAlias ==
    (Compiled /\ stmt.kind = "select" /\ NoRebind) =>
        \A c \in MatchedSingles, i \in HistCalls({"where"}) :
            \A b \in BinsOf(hist[i].arg) :
                RefersTo(b, c) =>
                    \E j \in PartsOf({"WHERE"}) : ExpectedLeft(b, c) \in Range(out[j])

(***************************************************************************)
(* C9  An (entity, new_alias) item of with_() overwrites the alias of the  *)
(*     entity: the references to it in the phases after WITH are written   *)
(*     with the new alias.  Stated of the conditions where() adds after    *)
(*     with_().                                                            *)
(***************************************************************************)
\* the (class, alias) pairs among the items of with_()
Rebinds ==
    {<<stmt.with_clauses[n].expr.c, stmt.with_clauses[n].alias>> :
        n \in {k \in 1..Len(stmt.with_clauses) :
                   /\ stmt.with_clauses[k].t = "pair"
                   /\ stmt.with_clauses[k].expr.t = "cls"}}

C9_WithPairRebindsAlias ==
    (Compiled /\ stmt.kind = "select") =>
        \A r \in Rebinds, i \in HistCalls({"where"}) :
            hist[i].ww =>
                \A b \in BinsOf(hist[i].arg) :
                    (b.left.t = "prop" /\ b.left.node_class = r[1]) =>
                        \E j \in PartsOf({"WHERE"}) :
                            /\ j > WithIdx
                            /\ (r[2] \o "." \o b.left.name) \in Range(out[j])

(***************************************************************************)
(* C10 A Select that projects a labelled aggregate in WITH and then        *)
(*     filters on it has WITH before that WHERE clause, and the WHERE      *)
(*     clause names the aggregate by its bare label: no function call, no  *)
(*     AS suffix.                                                          *)
(***************************************************************************)
\* the labelled functions among the items of with_()
LabelledInWith ==
    {stmt.with_clauses[n] :
        n \in {k \in 1..Len(stmt.with_clauses) :
                   /\ stmt.with_clauses[k].t = "func"
                   /\ stmt.with_clauses[k].label # ""}}

\* token tok is a call of function f
IsCallOf(f, tok) ==
    \E m \in {EmptyMap, stmt.alias_map} : tok = FunctionToCypher(f, m)[1]

C10_WhereNamesBareLabel ==
    (Compiled /\ stmt.kind = "select") =>
        \A f \in LabelledInWith, i \in HistCalls({"where"}) :
            hist[i].ww =>
                \A b \in BinsOf(hist[i].arg) :
                    b.left = f =>
                        \E j \in PartsOf({"WHERE"}) :
                            /\ 0 < WithIdx /\ WithIdx < j
                            /\ HoldsValue(j, b.right)
                            /\ f.label \in Range(out[j])
                            /\ \A tok \in Range(out[j]) :
                                   tok # "AS" /\ ~IsCallOf(f, tok)

(***************************************************************************)
(* C11 A to_cypher() call leaves every accumulator of the statement as it  *)
(*     was: the match lists, the three where lists, the with list, the     *)
(*     return list, order-by, remove, skip, limit and the with_called      *)
(*     flag.  The alias map (and the parameter dict) may change.           *)
(***************************************************************************)
\* the accumulators of a statement: all its state but alias map and params
Accumulators(s) == [s EXCEPT !.alias_map = EmptyMap, !.params = EmptyMap]

C11_CompileKeepsAccumulators ==
    [][compiles' = compiles + 1 => Accumulators(stmt') = Accumulators(stmt)]_vars

(***************************************************************************)
(* C12 On a Select on which returns() was never called, the RETURN clause  *)
(*     of every compile holds the alias of each entity passed on its own   *)
(*     to match(), whichever match() call added it.                        *)
(***************************************************************************)
\* the calls of match() with a single node entity
SingleMatches ==
    {i \in HistCalls({"match"}) :
        hist[i].arg.t = "cls" /\ EntityToMatchPattern(hist[i].arg) # ""}

C12_AutoReturnHoldsEverySingle ==
    (Compiled /\ stmt.kind = "select" /\ HistCalls({"returns"}) = {}) =>
        \A i \in SingleMatches :
            \E j \in PartsOf({"RETURN"}) :
                GetAliasForEntity(hist[i].arg) \in Range(out[j])

(***************************************************************************)
(* C13 Every pattern passed to match() or optional_match() is in the       *)
(*     compiled text, lowered; none is silently left out.  (No compile of  *)
(*     the code fails on a pattern, so each pattern has to be there.)      *)
(***************************************************************************)
C13_NoPatternDropped ==
    Compiled =>
        \A i \in HistCalls({"match", "optional_match"}) :
            /\ LoweredArg(hist[i].arg) # ""
            /\ \E j \in PartsOf({"MATCH", "OPTIONAL MATCH"}) :
                   LoweredArg(hist[i].arg) \in Range(out[j])


(***************************************************************************)
(* The stand-alone functions of the library, called one at a time on       *)
(* arguments drawn from bounded sets: call is the function and its         *)
(* argument, ret what it returned.  The query builder is left as           *)
(* constructed.                                                            *)
(***************************************************************************)
MaxHops == 3

\* int | None
HopsArgs == {None} \cup {<<n>> : n \in (0 - 1)..MaxHops}

FnInit ==
    /\ stmt = NewStatement("select", <<>>)
    /\ out = <<>>
    /\ prev = <<>>
    /\ fresh = "new"
    /\ compiles = 0
    /\ hist = <<>>
    /\ call = NoCall
    /\ ret = ""
    /\ graph = NewGraph
    /\ tx = NoTransaction
    /\ driver = NewDriver
    /\ threads = NoThreads

\* call fn on arg and keep what it returns
Returned(fn, arg, value) ==
    /\ call' = [fn |-> fn, arg |-> arg]
    /\ ret' = value
    /\ UNCHANGED <<QueryVars, GraphVars, threads>>

\* the patterns a caller of match() can build from the declared classes
SingleArgs == {Cls(c) : c \in Classes}

\* Select._entity_to_match_pattern on a single class
LowerSingle ==
    \E e \in SingleArgs : Returned("_entity_to_match_pattern", e, EntityToMatchPattern(e))

(***************************************************************************)
(* C14  A single node class lowers to (alias:Label): Label is the display  *)
(* name of the class (its explicit label when it declares one, else the    *)
(* name of the declared class) and alias is the explicit alias when set,   *)
(* else the lower-cased display name.                                      *)
(***************************************************************************)
C14_SingleLowersToAliasLabel ==
    (call.fn = "_entity_to_match_pattern" /\ call.arg.t = "cls" /\ call.arg.c \in NodeClasses) =>
        ret = "(" \o (IF HasAlias(call.arg.c) THEN ClassAlias(call.arg.c)
                      ELSE Lower(NodeLabel(call.arg.c)))
                  \o ":" \o NodeLabel(call.arg.c) \o ")"

\* VariableLength(edge_class, min_hops, max_hops)
NewVariableLength ==
    \E c \in EdgeClasses : \E lo \in HopsArgs : \E hi \in HopsArgs :
        Returned("VariableLength", <<c, lo, hi>>, VariableLengthInit(c, lo, hi))

\* the node classes at the two ends of a triple
EndArgs == {Cls("P"), Cls("Web")}

\* Select._entity_to_match_pattern on (src, edge, dst) whose edge is a
\* descriptor that VariableLength() returned
LowerVariableLength ==
    \E c \in EdgeClasses : \E lo \in HopsArgs : \E hi \in HopsArgs :
        \E r \in {VariableLengthInit(c, lo, hi)} :
            /\ r.ok
            /\ \E src \in EndArgs : \E dst \in EndArgs :
                   \E e \in {Triple(src, r.val, dst)} :
                       Returned("_entity_to_match_pattern", e, EntityToMatchPattern(e))

\* the last call lowered a triple whose edge is a VariableLength
LoweredVariableLength ==
    /\ call.fn = "_entity_to_match_pattern"
    /\ call.arg.t = "triple"
    /\ call.arg.edge.t = "varlen"

\* the suffix the bounds stand for; the case of a maximum alone is left open
SuffixFits(min_hops, max_hops, suffix) ==
    /\ (min_hops = None /\ max_hops = None) => suffix = "*"
    /\ (min_hops # None /\ max_hops # None /\ min_hops = max_hops) =>
           suffix = "*" \o ToString(min_hops[1])
    /\ (min_hops # None /\ max_hops # None /\ min_hops # max_hops) =>
           suffix = "*" \o ToString(min_hops[1]) \o ".." \o ToString(max_hops[1])
    /\ (min_hops # None /\ max_hops = None) =>
           suffix = "*" \o ToString(min_hops[1]) \o ".."

\* the suffixes a descriptor can be written with
Suffixes ==
    {"*"} \cup {"*" \o ToString(n) : n \in 0..MaxHops}
          \cup {"*" \o ToString(n) \o ".." : n \in 0..MaxHops}
          \cup {"*" \o ToString(n) \o ".." \o ToString(m) : n, m \in 0..MaxHops}

(***************************************************************************)
(* C15  A triple whose edge is a VariableLength lowers to                  *)
(* src-[:RELATION<suffix>]->dst with no alias in the edge segment; the     *)
(* suffix is * without bounds, *N when both bounds are N, *MIN..MAX when   *)
(* both are set and differ, *MIN.. when only the minimum is set.           *)
(***************************************************************************)
C15_VariableLengthSuffix ==
    LoweredVariableLength =>
        \E suffix \in Suffixes :
            /\ SuffixFits(call.arg.edge.min_hops, call.arg.edge.max_hops, suffix)
            /\ ret = EntityToMatchPattern(call.arg.src)
                         \o "-[:" \o EdgeRelation(call.arg.edge.edge_class) \o suffix \o "]->"
                         \o EntityToMatchPattern(call.arg.dst)

\* the four bounds the specification spells out, each as lowered
C15_Witness ==
    /\ LoweredVariableLength
    /\ call.arg.src = Cls("P") /\ call.arg.dst = Cls("Web")
    /\ call.arg.edge.edge_class = "Follows"
    /\ \/ call.arg.edge.min_hops = <<2>> /\ call.arg.edge.max_hops = <<2>>
             /\ ret = "(p:Page)-[:FOLLOWS*2]->(web:WebPage)"
       \/ call.arg.edge.min_hops = <<1>> /\ call.arg.edge.max_hops = <<3>>
             /\ ret = "(p:Page)-[:FOLLOWS*1..3]->(web:WebPage)"

(***************************************************************************)
(* C16  A VariableLength that is lowered has min_hops >= 0, max_hops >= 0  *)
(* and min_hops <= max_hops wherever the bounds are present: the           *)
(* constructor raises for a negative bound and for min_hops > max_hops,    *)
(* and lowering a descriptor always returns a pattern.                     *)
(***************************************************************************)
HopsValid(min_hops, max_hops) ==
    /\ min_hops # None => min_hops[1] >= 0
    /\ max_hops # None => max_hops[1] >= 0
    /\ (min_hops # None /\ max_hops # None) => min_hops[1] <= max_hops[1]

C16_VariableLengthValidated ==
    /\ call.fn = "VariableLength" =>
           /\ ret.ok <=> HopsValid(call.arg[2], call.arg[3])
           /\ ret.ok => ret.val = VarLen(call.arg[1], call.arg[2], call.arg[3])
    /\ LoweredVariableLength =>
           /\ HopsValid(call.arg.edge.min_hops, call.arg.edge.max_hops)
           /\ ret # ""

\* a constructor call rejected for min_hops > max_hops
C16_Witness ==
    /\ call.fn = "VariableLength"
    /\ call.arg[2] = <<3>> /\ call.arg[3] = <<1>>
    /\ ~ret.ok

FnNext ==
    \/ LowerSingle
    \/ NewVariableLength
    \/ LowerVariableLength

FnSpec == FnInit /\ [][FnNext]_vars
(***************************************************************************)
(* Conditions built step by step with the operators & and | and with the   *)
(* constructors, each serialized with to_cypher() as soon as it is built:  *)
(* call.arg is the condition held, ret the tokens of its text.             *)
(***************************************************************************)
MaxOps == 2

\* the comparisons to build from: ==, != on a property, a BinaryExpression
\* constructed with the operator "!=", != on a function call
Comparisons ==
    { Bin(PPath, "=", 1),
      NotEqual(PPath, 2),
      Bin(PPath, "!=", 3),
      NotEqual(OutDeg, 4) }

\* the And and Or nodes of a condition
RECURSIVE Ops(_)
Ops(e) == IF e.t \in {"and", "or"} THEN 1 + Ops(e.left) + Ops(e.right) ELSE 0

\* expr.to_cypher() with no arguments: a new params dict, no alias map
Serialized(e) == CondToCypher(e, EmptyMap, EmptyMap).toks

\* e has been built and is serialized
Held(e) == Returned("to_cypher", e, Serialized(e))

CanGrow == call.fn = "to_cypher" /\ Ops(call.arg) < MaxOps

\* a comparison
Compare == \E e \in Comparisons : Held(e)

\* held & other, other & held
AndCall ==
    /\ CanGrow
    /\ \E other \in Comparisons :
           \E e \in {AndOperator(call.arg, other), AndOperator(other, call.arg)} : Held(e)

\* held | other, other | held
OrCall ==
    /\ CanGrow
    /\ \E other \in Comparisons :
           \E e \in {OrOperator(call.arg, other), OrOperator(other, call.arg)} : Held(e)

\* OrExpression(held), the right operand left out
NewOrExpression ==
    /\ CanGrow
    /\ Held(OrE(call.arg, NoRight))

ExprNext ==
    \/ Compare
    \/ AndCall
    \/ OrCall
    \/ NewOrExpression

ExprSpec == FnInit /\ [][ExprNext]_vars

(***************************************************************************)
(* C17  A comparison that expresses inequality, whether the != operator    *)
(* built it or BinaryExpression was constructed with the operator "!=",    *)
(* is written with <> and its text never contains !=.                      *)
(***************************************************************************)
C17_InequalityWrittenAsAngleBrackets ==
    (call.fn = "to_cypher" /\ \E b \in BinsOf(call.arg) : b.operator \in {"<>", "!="}) =>
        /\ "<>" \in Range(ret)
        /\ "!=" \notin Range(ret)

\* the text of a condition with every placeholder written as $
Erased(toks) == [i \in 1..Len(toks) |-> IF IsPlaceholder(toks[i]) THEN "$" ELSE toks[i]]

\* the conditions a condition is made of, itself included
RECURSIVE Nodes(_)
Nodes(e) ==
    IF e.t \in {"and", "or"} THEN {e} \cup Nodes(e.left) \cup Nodes(e.right) ELSE {e}

\* the text of n is ( left WORD right ) around the texts of its operands
InOwnParentheses(n, word) ==
    \E toks \in {Erased(Serialized(n))} :
        /\ Len(toks) >= 2
        /\ toks[1] = "("
        /\ toks[Len(toks)] = ")"
        /\ \E i \in 2..(Len(toks) - 1) :
               /\ toks[i] = word
               /\ SubSeq(toks, 2, i - 1) = Erased(Serialized(n.left))
               /\ n.right.t # "none" =>
                      SubSeq(toks, i + 1, Len(toks) - 1) = Erased(Serialized(n.right))

\* the text of the held condition contains the text of n
Contains(toks, sub) ==
    \E i \in 0..(Len(toks) - Len(sub)) : SubSeq(toks, i + 1, i + Len(sub)) = sub

(***************************************************************************)
(* C18  Every And and every Or node of a condition, at any depth and       *)
(* however it was built, serializes to (left AND right) or (left OR right) *)
(* in its own pair of parentheses.                                         *)
(***************************************************************************)
C18_EveryAndOrInOwnParentheses ==
    call.fn = "to_cypher" =>
        \A n \in Nodes(call.arg) :
            /\ n.t = "and" => InOwnParentheses(n, "AND")
            /\ n.t = "or" => InOwnParentheses(n, "OR")

(***************************************************************************)
(* C18 as the code has it: every And node and every Or node with two       *)
(* operands serializes to (left AND right) or (left OR right) in its own   *)
(* pair of parentheses, and that text is part of the text of the whole     *)
(* condition; an Or node with one operand serializes to the text of that   *)
(* operand.                                                                *)
(***************************************************************************)
C18_TwoOperandNodesInOwnParentheses ==
    call.fn = "to_cypher" =>
        \A n \in Nodes(call.arg) :
            /\ n.t = "and" => InOwnParentheses(n, "AND")
            /\ (n.t = "or" /\ n.right.t # "none") => InOwnParentheses(n, "OR")
            /\ (n.t = "or" /\ n.right.t = "none") => Serialized(n) = Serialized(n.left)
            /\ n.t \in {"and", "or"} => Contains(Erased(ret), Erased(Serialized(n)))

\* an Or inside an And, each in its own parentheses
C18_Witness ==
    /\ call.fn = "to_cypher"
    /\ call.arg = AndE(Bin(PPath, "=", 1), OrE(Bin(PPath, "=", 1), NotEqual(PPath, 2)))
    /\ ret = <<"(", "p.path", "=", "$param_0", "AND",
               "(", "p.path", "=", "$param_1", "OR", "p.path", "<>", "$param_2", ")", ")">>
(***************************************************************************)
(* utils.py : the two producers of literal text.  A Python value is        *)
(* None, a bool, an int, a str (the sequence of its characters) or a list  *)
(* of values.                                                              *)
(***************************************************************************)
NoneV == [t |-> "none"]
BoolV(b) == [t |-> "bool", b |-> b]
IntV(n) == [t |-> "int", n |-> n]
StrV(chars) == [t |-> "str", chars |-> chars]
ListV(items) == [t |-> "list", items |-> items]

\* str.replace(old, new) for a one-character old
RECURSIVE Replace(_, _, _)
Replace(chars, old, new) ==
    IF chars = <<>> THEN <<>>
    ELSE (IF chars[1] = old THEN new ELSE <<chars[1]>>) \o Replace(Tail(chars), old, new)

\* quote_string on a str
QuoteString(chars) ==
    IF Len(chars) = 0 THEN "\"\""
    ELSE "\"" \o JoinStr(Replace(Replace(chars, "\\", <<"\\", "\\">>), "\"", <<"\\", "\"">>), "")
              \o "\""

\* str(value) for an int and for a bool
PyStr(value) ==
    IF value.t = "bool" THEN (IF value.b THEN "True" ELSE "False") ELSE ToString(value.n)

\* format_cypher_value
RECURSIVE FormatCypherValue(_)
FormatCypherValue(value) ==
    IF value.t = "bool" THEN (IF value.b THEN "true" ELSE "false")
    ELSE IF value.t = "str" THEN QuoteString(value.chars)
    ELSE IF value.t = "none" THEN "null"
    ELSE IF value.t = "list"
    THEN "[" \o JoinStr([i \in 1..Len(value.items) |-> FormatCypherValue(value.items[i])], ",")
             \o "]"
    ELSE PyStr(value)

\* stringify_param_value
RECURSIVE StringifyParamValue(_)
StringifyParamValue(value) ==
    IF value.t = "str" THEN QuoteString(value.chars)
    ELSE IF value.t = "none" THEN "null"
    ELSE IF value.t = "list"
    THEN "[" \o JoinStr([i \in 1..Len(value.items) |-> StringifyParamValue(value.items[i])], ",")
             \o "]"
    ELSE PyStr(value)

(***************************************************************************)
(* Values built step by step and rendered by one of the two producers as   *)
(* soon as they are built: call.arg is the value, ret its text.            *)
(***************************************************************************)
MaxSize == 3

\* the strings to render: empty, plain, with a quote, with a backslash
StrArgs == { <<>>, <<"a">>, <<"a", "\"", "b">>, <<"\\", "n">> }

Atoms ==
    {NoneV, BoolV(TRUE), BoolV(FALSE), IntV(1), ListV(<<>>)} \cup {StrV(chars) : chars \in StrArgs}

Producers == {"format_cypher_value", "stringify_param_value"}

\* the values a value is made of, itself included
RECURSIVE Size(_)
Size(value) ==
    IF value.t = "list" /\ value.items # <<>>
    THEN 1 + Size(value.items[1]) + Size(ListV(Tail(value.items))) - 1
    ELSE 1

Rendered(fn, value) ==
    Returned(fn, value,
             IF fn = "format_cypher_value" THEN FormatCypherValue(value)
             ELSE StringifyParamValue(value))

\* a value that is not made of others
RenderAtom == \E fn \in Producers : \E value \in Atoms : Rendered(fn, value)

\* [held]
RenderListOf ==
    /\ call.fn \in Producers
    /\ Size(call.arg) < MaxSize
    /\ \E fn \in Producers : Rendered(fn, ListV(<<call.arg>>))

\* held + [atom], for a list held
RenderExtended ==
    /\ call.fn \in Producers
    /\ call.arg.t = "list"
    /\ Size(call.arg) < MaxSize
    /\ \E fn \in Producers : \E value \in Atoms :
           Rendered(fn, ListV(Append(call.arg.items, value)))

ValueNext ==
    \/ RenderAtom
    \/ RenderListOf
    \/ RenderExtended

ValueSpec == FnInit /\ [][ValueNext]_vars

(***************************************************************************)
(* C19  format_cypher_value and stringify_param_value render the same      *)
(* value with the same text: None as null, True and False as true and      *)
(* false, a string in double quotes with backslash and quote escaped, a    *)
(* list as [v1,v2,...] of its rendered items.                              *)
(***************************************************************************)
C19_ProducersRenderAlike ==
    call.fn \in Producers =>
        /\ ret = FormatCypherValue(call.arg)
        /\ ret = StringifyParamValue(call.arg)
        /\ call.arg.t = "none" => ret = "null"
        /\ call.arg.t = "bool" => ret = (IF call.arg.b THEN "true" ELSE "false")
(***************************************************************************)
(* graph.py : Graph.add_node, Graph.add_edge, Graph.flush and the          *)
(* Transaction context manager.  The driver records the calls of commit.   *)
(***************************************************************************)
MaxPending == 2
MaxEntered == 2
MaxCommits == 2

\* Node instances: each has its own alias; n3 has the labels and the
\* properties of n1
NodeObj(alias, path) == [alias |-> alias, labels |-> {"Page"}, properties |-> [path |-> path]]

NodeObjs == {NodeObj("n1", 1), NodeObj("n2", 2), NodeObj("n3", 1)}

\* Edge instances between them
EdgeObj(alias, src, dst) ==
    [alias |-> alias, src_node |-> src, dst_node |-> dst, relation |-> "Linked"]

EdgeObjs ==
    {EdgeObj("e1", NodeObj("n1", 1), NodeObj("n2", 2)),
     EdgeObj("e2", NodeObj("n3", 1), NodeObj("n2", 2))}

\* Node.__eq__ for nodes without ids
NodeEq(a, b) == a.labels = b.labels /\ a.properties = b.properties

\* Edge.__eq__ for edges without ids and without properties
EdgeEq(a, b) ==
    /\ NodeEq(a.src_node, b.src_node)
    /\ NodeEq(a.dst_node, b.dst_node)
    /\ a.relation = b.relation

\* Graph.add_node
GraphAddNode(g, node) ==
    IF \E i \in 1..Len(g.nodes) : NodeEq(node, g.nodes[i]) THEN g
    ELSE [g EXCEPT !.nodes = Append(g.nodes, node)]

\* Graph.add_edge
GraphAddEdge(g, edge) ==
    LET Known(h, node) ==
            IF \E i \in 1..Len(h.nodes) : h.nodes[i].alias = node.alias THEN h
            ELSE GraphAddNode(h, node)
        Added(h) ==
            IF \E i \in 1..Len(h.edges) : EdgeEq(edge, h.edges[i]) THEN h
            ELSE [h EXCEPT !.edges = Append(h.edges, edge)]
    IN  Added(Known(Known(g, edge.src_node), edge.dst_node))

\* Graph.flush : Driver.commit is called with the nodes, then the edges
GraphFlush(g, d) == [calls |-> d.calls + 1, items |-> g.nodes \o g.edges]

RECURSIVE AddNodes(_, _)
AddNodes(g, nodes) ==
    IF nodes = <<>> THEN g ELSE AddNodes(GraphAddNode(g, nodes[1]), Tail(nodes))

RECURSIVE AddEdges(_, _)
AddEdges(g, edges) ==
    IF edges = <<>> THEN g ELSE AddEdges(GraphAddEdge(g, edges[1]), Tail(edges))

\* Transaction.flush
TransactionFlush(t, g, d) ==
    LET Flushed(h) == [tx |-> [t EXCEPT !.nodes = <<>>, !.edges = <<>>],
                       graph |-> h,
                       driver |-> GraphFlush(h, d)]
    IN  Flushed(AddEdges(AddNodes(g, t.nodes), t.edges))

TransactionExitAlwaysFlush(t, g, d, raised) ==
    LET Left(r) == [r EXCEPT !.tx.state = IF raised THEN "raised" ELSE "closed"]
    IN  Left(TransactionFlush(t, g, d))

\* Transaction.__exit__ ; raised is exc_type is not None
TransactionExit(t, g, d, raised) ==
    LET Left(r) == [r EXCEPT !.tx.state = IF raised THEN "raised" ELSE "closed"]
    IN  IF ~raised THEN Left(TransactionFlush(t, g, d))
        ELSE Left([tx |-> t, graph |-> g, driver |-> d])

\* the step has the new transaction, graph and driver of r
Becomes(r) ==
    /\ tx' = r.tx
    /\ graph' = r.graph
    /\ driver' = r.driver
    /\ UNCHANGED <<QueryVars, call, ret, threads>>

\* graph.add_node(node), outside of any transaction object
AddNode ==
    \E node \in NodeObjs :
        Becomes([tx |-> tx, graph |-> GraphAddNode(graph, node), driver |-> driver])

\* graph.add_edge(edge)
AddEdge ==
    \E edge \in EdgeObjs :
        Becomes([tx |-> tx, graph |-> GraphAddEdge(graph, edge), driver |-> driver])

\* with graph.transaction() as tx: Transaction.__init__ and __enter__
Enter ==
    /\ tx.state # "open"
    /\ tx.entered < MaxEntered
    /\ Becomes([tx |-> [state |-> "open", entered |-> tx.entered + 1,
                        nodes |-> <<>>, edges |-> <<>>],
                graph |-> graph, driver |-> driver])

Pending == Len(tx.nodes) + Len(tx.edges)

\* tx.add_node(node)
TxAddNode ==
    /\ tx.state = "open"
    /\ Pending < MaxPending
    /\ \E node \in NodeObjs :
           Becomes([tx |-> [tx EXCEPT !.nodes = Append(tx.nodes, node)],
                    graph |-> graph, driver |-> driver])

\* tx.add_edge(edge)
TxAddEdge ==
    /\ tx.state = "open"
    /\ Pending < MaxPending
    /\ \E edge \in EdgeObjs :
           Becomes([tx |-> [tx EXCEPT !.edges = Append(tx.edges, edge)],
                    graph |-> graph, driver |-> driver])

\* tx.flush() inside the block
TxFlush ==
    /\ tx.state = "open"
    /\ driver.calls < MaxCommits
    /\ Becomes(TransactionFlush(tx, graph, driver))

\* the block ends without an exception: __exit__(None, None, None)
ExitNormally ==
    /\ tx.state = "open"
    /\ driver.calls < MaxCommits
    /\ Becomes(TransactionExit(tx, graph, driver, FALSE))

\* the block raises: __exit__(exc_type, exc_val, exc_tb)
ExitRaising ==
    /\ tx.state = "open"
    /\ Becomes(TransactionExit(tx, graph, driver, TRUE))

GraphInit ==
    /\ stmt = NewStatement("select", <<>>)
    /\ out = <<>>
    /\ prev = <<>>
    /\ fresh = "new"
    /\ compiles = 0
    /\ hist = <<>>
    /\ call = NoCall
    /\ ret = ""
    /\ graph = NewGraph
    /\ tx = NoTransaction
    /\ driver = NewDriver
    /\ threads = NoThreads

GraphNext ==
    \/ AddNode
    \/ AddEdge
    \/ Enter
    \/ TxAddNode
    \/ TxAddEdge
    \/ TxFlush
    \/ ExitNormally
    \/ ExitRaising

GraphSpec == GraphInit /\ [][GraphNext]_vars

\* every node and edge of the two lists has an equal in the graph and among
\* the items of the last commit
AllIn(nodes, edges, g, d) ==
    /\ \A i \in 1..Len(nodes) :
          /\ \E j \in 1..Len(g.nodes) : NodeEq(nodes[i], g.nodes[j])
          /\ \E j \in 1..Len(d.items) : "labels" \in DOMAIN d.items[j]
                                        /\ NodeEq(nodes[i], d.items[j])
    /\ \A i \in 1..Len(edges) :
          /\ \E j \in 1..Len(g.edges) : EdgeEq(edges[i], g.edges[j])
          /\ \E j \in 1..Len(d.items) : "relation" \in DOMAIN d.items[j]
                                        /\ EdgeEq(edges[i], d.items[j])

(***************************************************************************)
(* C20  When a with graph.transaction() block is left without an           *)
(* exception, its pending nodes and edges are added to the graph and the   *)
(* graph is flushed to the driver; when it is left by an exception, the    *)
(* graph stays as it was and the driver is not called.                     *)
(***************************************************************************)
C20_PendingFlushedIffNoException ==
    [][/\ (tx.state = "open" /\ tx'.state = "closed") =>
              /\ AllIn(tx.nodes, tx.edges, graph', driver')
              /\ driver'.calls = driver.calls + 1
              /\ driver'.items = graph'.nodes \o graph'.edges
       /\ (tx.state = "open" /\ tx'.state = "raised") =>
              /\ graph' = graph
              /\ driver' = driver]_vars

\* a block that raised with a node and an edge pending, after an earlier
\* block was left normally and flushed
C20_Witness ==
    /\ tx.state = "raised"
    /\ tx.entered = 2
    /\ tx.nodes # <<>>
    /\ tx.edges # <<>>
    /\ driver.calls = 1
    /\ driver.items # <<>>
(***************************************************************************)
(* drivers/redis.py : RedisDriver.commit and RedisDriver.query, each       *)
(* called on its own.  The server is what it answers to each command; a    *)
(* query stands for the items whose merge() texts it is made of.           *)
(***************************************************************************)
MaxBatch == 2

\* hasattr(item, 'src_node') and hasattr(item, 'dst_node')
IsEdge(item) == "src_node" \in DOMAIN item /\ "dst_node" \in DOMAIN item

\* for item in batch: self.query(item.merge()) inside try: the first query
\* that raises ends the batch
RECURSIVE SendBatch(_, _)
SendBatch(batch, fail) ==
    IF batch = <<>> THEN <<>>
    ELSE <<<<batch[1]>>>> \o (IF batch[1].alias \in fail THEN <<>>
                              ELSE SendBatch(Tail(batch), fail))

\* for i in range(0, len(items), batch_size)
RECURSIVE SendBatches(_, _, _)
SendBatches(items, batch_size, fail) ==
    IF items = <<>> THEN <<>>
    ELSE IF Len(items) <= batch_size THEN SendBatch(items, fail)
    ELSE SendBatch(SubSeq(items, 1, batch_size), fail)
             \o SendBatches(SubSeq(items, batch_size + 1, Len(items)), batch_size, fail)

\* RedisDriver.commit : sent are the queries issued, in order; raised is
\* whether commit ends with the exception of its one query
DriverCommit(items, batch_size, fail) ==
    IF Len(items) = 0 THEN [raised |-> FALSE, sent |-> <<>>]
    ELSE IF batch_size <= 0
    THEN [raised |-> \E i \in 1..Len(items) : items[i].alias \in fail,
          sent |-> <<items>>]
    ELSE [raised |-> FALSE,
          sent |-> SendBatches(SelectSeq(items, LAMBDA item : ~IsEdge(item)), batch_size, fail)
                       \o SendBatches(SelectSeq(items, IsEdge), batch_size, fail)]

\* the items a caller commits: two nodes and the edge between them
CommitPool ==
    {NodeObj("n1", 1), NodeObj("n2", 2), EdgeObj("e1", NodeObj("n1", 1), NodeObj("n2", 2))}

\* every list of distinct items of the pool
CommitArgs ==
    UNION {{items \in [1..n -> CommitPool] : \A i, j \in 1..n : i # j => items[i] # items[j]}
           : n \in 0..Cardinality(CommitPool)}

\* driver.commit(graph, items, batch_size) ; fail are the items whose query
\* the server rejects
Commit ==
    \E items \in CommitArgs : \E batch_size \in (0 - 1)..MaxBatch :
        \E fail \in SUBSET {"n1", "e1"} :
            Returned("commit", [items |-> items, fail |-> fail, batch_size |-> batch_size],
                     DriverCommit(items, batch_size, fail))

\* types.py : CMD
Commands == {"GRAPH.QUERY", "GRAPH.RO_QUERY", "GRAPH.DELETE"}

\* what execute_command does: returns, or raises ResponseError with
\* "unknown command" or with another message
Responses == {"ok", "unknown command", "error"}

\* RedisDriver.query : commands are the commands issued, in order
RECURSIVE DriverQuery(_, _, _)
DriverQuery(cmd, read_only, server) ==
    LET Fallback(issued, r) == [result |-> r.result, commands |-> <<issued>> \o r.commands]
        Issue(issued) ==
            IF server[issued] = "ok" THEN [result |-> "ok", commands |-> <<issued>>]
            ELSE IF server[issued] = "unknown command" /\ read_only
            THEN Fallback(issued, DriverQuery(issued, FALSE, server))
            ELSE [result |-> "QueryExecutionError", commands |-> <<issued>>]
    IN  Issue(IF cmd = "GRAPH.QUERY" /\ read_only THEN "GRAPH.RO_QUERY" ELSE cmd)

\* driver.query(cmd, graph_name, q, read_only=read_only) against a server
Query ==
    \E cmd \in Commands : \E read_only \in BOOLEAN : \E server \in [Commands -> Responses] :
        Returned("query", [cmd |-> cmd, read_only |-> read_only, server |-> server],
                 DriverQuery(cmd, read_only, server))

DriverNext ==
    \/ Commit
    \/ Query

DriverSpec == FnInit /\ [][DriverNext]_vars

(***************************************************************************)
(* C21  Whatever the batch_size and the order of the items, commit() sends *)
(* the merge text of every node before the merge text of any edge.         *)
(***************************************************************************)
C21_NodesSentBeforeEdges ==
    call.fn = "commit" =>
        \E texts \in {Flatten(ret.sent)} :
            \A i, j \in 1..Len(texts) : (IsEdge(texts[i]) /\ ~IsEdge(texts[j])) => j < i

(***************************************************************************)
(* C22  A query with read_only=True that the server rejects as an unknown  *)
(* command is issued once more with GRAPH.QUERY, not with GRAPH.RO_QUERY,  *)
(* and the result of that second attempt is returned.                      *)
(***************************************************************************)
C22_FallbackIssuesQuery ==
    (/\ call.fn = "query"
     /\ call.arg.read_only
     /\ call.arg.cmd \in {"GRAPH.QUERY", "GRAPH.RO_QUERY"}
     /\ call.arg.server["GRAPH.RO_QUERY"] = "unknown command") =>
        /\ ret.commands = <<"GRAPH.RO_QUERY", "GRAPH.QUERY">>
        /\ ret.result = (IF call.arg.server["GRAPH.QUERY"] = "ok" THEN "ok"
                         ELSE "QueryExecutionError")
(***************************************************************************)
(* path.py : a Path and the calls of add_node and add_edge on it.  ret is  *)
(* the Path after the last call (each call returns self): its two lists,   *)
(* its append_type as the set of classes it admits, whether the call       *)
(* raised AssertionError, and the kind of the last item appended.          *)
(***************************************************************************)
MaxPath == 3

\* Path.__init__ : append_type = Node | Edge
NewPath(nodes, edges) ==
    [nodes |-> nodes, edges |-> edges, append_type |-> {"Node", "Edge"},
     raised |-> FALSE, last |-> "none"]

\* Path.add_node
PathAddNode(path, node) ==
    IF "Node" \notin path.append_type THEN [path EXCEPT !.raised = TRUE]
    ELSE [path EXCEPT !.nodes = Append(path.nodes, node), !.append_type = {"Edge"},
                      !.raised = FALSE, !.last = "node"]

\* Path.add_edge
PathAddEdge(path, edge) ==
    IF "Edge" \notin path.append_type THEN [path EXCEPT !.raised = TRUE]
    ELSE [path EXCEPT !.edges = Append(path.edges, edge), !.append_type = {"Node"},
                      !.raised = FALSE, !.last = "edge"]

PathCalls == {"Path", "add_node", "add_edge"}

\* Path.new_empty_path() and Path([node], [])
NewPathCall ==
    \E nodes \in {<<>>, <<NodeObj("n1", 1)>>} : Returned("Path", nodes, NewPath(nodes, <<>>))

HasRoom == call.fn \in PathCalls /\ Len(ret.nodes) + Len(ret.edges) < MaxPath

\* path.add_node(node)
PathAddNodeCall ==
    /\ HasRoom
    /\ \E node \in NodeObjs : Returned("add_node", node, PathAddNode(ret, node))

\* path.add_edge(edge)
PathAddEdgeCall ==
    /\ HasRoom
    /\ \E edge \in EdgeObjs : Returned("add_edge", edge, PathAddEdge(ret, edge))

PathNext ==
    \/ NewPathCall
    \/ PathAddNodeCall
    \/ PathAddEdgeCall

PathSpec == FnInit /\ [][PathNext]_vars

\* the call of the step is in turn: add_node on an empty path or directly
\* after an edge, add_edge directly after a node
InTurn ==
    IF call'.fn = "add_node"
    THEN (ret.nodes = <<>> /\ ret.edges = <<>>) \/ ret.last = "edge"
    ELSE ret.last = "node"

(***************************************************************************)
(* C23  The successful add_node and add_edge calls on a Path alternate,    *)
(* starting with a node: a call in turn succeeds, any other call raises    *)
(* AssertionError and leaves nodes, edges and append_type as they were.    *)
(***************************************************************************)
C23_PathCallsAlternate ==
    [][call'.fn \in {"add_node", "add_edge"} =>
           IF InTurn THEN ~ret'.raised
           ELSE /\ ret'.raised
                /\ ret'.nodes = ret.nodes
                /\ ret'.edges = ret.edges
                /\ ret'.append_type = ret.append_type]_vars
(***************************************************************************)
(* graph.py : Graph.add_node called again and again on one graph with      *)
(* nodes of classes whose __primary_key__ is ["path"].  ret is the graph   *)
(* after the call and the number the call returned.                        *)
(***************************************************************************)
\* a Node instance with the given labels and properties
NodeWith(alias, labels, properties) ==
    [alias |-> alias, labels |-> labels, properties |-> properties]

\* two Page nodes with the same path, a third with the same path and
\* another title, one with another path, one of another class
AddNodeArgs ==
    {NodeWith("n1", {"Page"}, [path |-> 1, title |-> "x"]),
     NodeWith("n3", {"Page"}, [path |-> 1, title |-> "x"]),
     NodeWith("n4", {"Page"}, [path |-> 1, title |-> "y"]),
     NodeWith("n2", {"Page"}, [path |-> 2, title |-> "x"]),
     NodeWith("n5", {"WebPage"}, [path |-> 1, title |-> "x"])}

\* Graph.add_node : the number returned
GraphAddNodeResult(g, node) ==
    IF \E i \in 1..Len(g.nodes) : NodeEq(node, g.nodes[i]) THEN 0 ELSE 1

\* Graph(name)
NewGraphCall == Returned("Graph", <<>>, [graph |-> NewGraph, result |-> 1])

\* graph.add_node(node)
AddNodeCall ==
    /\ call.fn \in {"Graph", "graph.add_node"}
    /\ \E node \in AddNodeArgs :
           Returned("graph.add_node", node,
                    [graph |-> GraphAddNode(ret.graph, node),
                     result |-> GraphAddNodeResult(ret.graph, node)])

AddNodeNext ==
    \/ NewGraphCall
    \/ AddNodeCall

AddNodeSpec == FnInit /\ [][AddNodeNext]_vars

\* the graph holds a node with the labels and the primary-key values of node
HoldsSameKey(g, node) ==
    \E i \in 1..Len(g.nodes) :
        /\ g.nodes[i].labels = node.labels
        /\ g.nodes[i].properties.path = node.properties.path

(***************************************************************************)
(* C24  Graph.add_node(node) returns 0 and stores nothing exactly when the *)
(* graph already holds a node with the same labels and the same            *)
(* primary-key values, whatever the other properties; otherwise it stores  *)
(* the node and returns 1.                                                 *)
(***************************************************************************)
C24_AddNodeByPrimaryKey ==
    [][call'.fn = "graph.add_node" =>
           IF HoldsSameKey(ret.graph, call'.arg)
           THEN ret'.result = 0 /\ ret'.graph = ret.graph
           ELSE ret'.result = 1 /\ ret'.graph.nodes = Append(ret.graph.nodes, call'.arg)]_vars
(***************************************************************************)
(* Two threads call to_cypher() on one Select that is built and no longer  *)
(* changed.  Both pass self._params, the one dict of the statement, to     *)
(* every condition.  BinaryExpression._add_param_to_dict reads             *)
(* len(params) and stores params[param_name] in two statements, and a      *)
(* thread switch can fall between them.  A thread is at "read" before the  *)
(* first and at "write" before the second; binds are the placeholders of   *)
(* the text it builds, each with the operand it stands for.                *)
(***************************************************************************)
\* the right operands of the parameterized comparisons of a condition, in
\* the order to_cypher() serializes them
RECURSIVE CondOperands(_)
CondOperands(e) ==
    IF e.t = "bin" THEN (IF e.operator \in NoParamOperators THEN <<>> ELSE <<e.right>>)
    ELSE IF e.t = "and" THEN CondOperands(e.left) \o CondOperands(e.right)
    ELSE IF e.t = "or"
    THEN CondOperands(e.left) \o (IF e.right.t = "none" THEN <<>> ELSE CondOperands(e.right))
    ELSE <<>>

\* Statement._build_where_clause : for condition in where_clauses
RECURSIVE WhereOperands(_)
WhereOperands(conds) ==
    IF conds = <<>> THEN <<>> ELSE CondOperands(conds[1]) \o WhereOperands(Tail(conds))

\* the where() calls of the statements compiled
BuiltWheres ==
    { <<Bin(PPath, "=", 1)>>,
      <<Bin(PPath, "=", 1), Bin(PPath, "<>", 2)>>,
      <<AndE(Bin(PPath, "=", 1), Bin(PPath, "<>", 2))>>,
      <<Bin(PPath, "=", 1), OrE(Bin(PPath, "<>", 2), Bin(PPath, ">", 3))>> }

\* select().match(P).where(...) ... , not compiled yet
ConcurrentInit ==
    /\ \E conds \in BuiltWheres :
          stmt = [NewStatement("select", <<>>) EXCEPT !.match_clauses = <<Cls("P")>>,
                                                     !.where_clauses = conds]
    /\ out = <<>>
    /\ prev = <<>>
    /\ fresh = "new"
    /\ compiles = 0
    /\ hist = <<>>
    /\ call = NoCall
    /\ ret = ""
    /\ graph = NewGraph
    /\ tx = NoTransaction
    /\ driver = NewDriver
    /\ threads = NoThreads

\* thread t goes on as local, the statement's params dict becomes params
Runs(t, local, params) ==
    /\ threads' = [threads EXCEPT ![t] = local]
    /\ stmt' = [stmt EXCEPT !.params = params]
    /\ UNCHANGED <<out, prev, fresh, compiles, hist, call, ret, graph, tx, driver>>

\* thread t calls stmt.to_cypher() and reaches the first comparison
Start ==
    \E t \in Threads :
        /\ threads[t].pc = "idle"
        /\ Runs(t, [threads[t] EXCEPT !.pc = "read"], stmt.params)

\* param_num = len(params); param_name = f"param_{param_num}"
ReadLen ==
    \E t \in Threads :
        /\ threads[t].pc = "read"
        /\ Runs(t, [threads[t] EXCEPT
                        !.pc = "write",
                        !.name = "param_" \o ToString(Cardinality(DOMAIN stmt.params))],
                stmt.params)

\* params[param_name] = value; return param_name; the text gets $param_name
StoreParam ==
    \E t \in Threads : \E operands \in {WhereOperands(stmt.where_clauses)} :
        /\ threads[t].pc = "write"
        /\ Runs(t, [threads[t] EXCEPT
                        !.pc = IF threads[t].i = Len(operands) THEN "done" ELSE "read",
                        !.i = threads[t].i + 1,
                        !.binds = Append(threads[t].binds,
                                         [name |-> threads[t].name,
                                          value |-> operands[threads[t].i]])],
                Update(stmt.params, (threads[t].name :> operands[threads[t].i])))

ConcurrentNext ==
    \/ Start
    \/ ReadLen
    \/ StoreParam

ConcurrentSpec == ConcurrentInit /\ [][ConcurrentNext]_vars

(***************************************************************************)
(* C25  When two threads compile the same built statement at the same      *)
(* time, every placeholder of each returned text is bound in get_params()  *)
(* to the right operand of the comparison it stands for, under every       *)
(* interleaving.                                                           *)
(***************************************************************************)
C25_ConcurrentCompilesBindOperands ==
    \A t \in Threads :
        threads[t].pc = "done" =>
            \A k \in 1..Len(threads[t].binds) :
                /\ threads[t].binds[k].name \in DOMAIN stmt.params
                /\ stmt.params[threads[t].binds[k].name] = threads[t].binds[k].value
(***************************************************************************)
(* C26  A pattern passed to optional_match() after with_() is routed as    *)
(* match() routes it: the compiled Select has it in an OPTIONAL MATCH      *)
(* clause after the WITH clause, and in none before it.  Checked under     *)
(* Spec.                                                                   *)
(***************************************************************************)
C26_OptionalMatchAfterWithFollowsWith ==
    (Compiled /\ stmt.kind = "select" /\ WithIdx > 0) =>
        \A i \in HistCalls({"optional_match"}) :
            (hist[i].ww /\ LoweredArg(hist[i].arg) # "") =>
                /\ \E j \in PartsOf({"OPTIONAL MATCH"}) :
                       j > WithIdx /\ LoweredArg(hist[i].arg) \in Range(out[j])
                /\ \A j \in PartsOf({"OPTIONAL MATCH"}) :
                       (j < WithIdx /\ LoweredArg(hist[i].arg) \in Range(out[j])) =>
                           \E k \in HistCalls({"optional_match"}) :
                               ~hist[k].ww /\ hist[k].arg = hist[i].arg
(***************************************************************************)
(* C27  Every condition passed to where() on a Delete is in the compiled   *)
(* delete text, the conditions added after with_() included.  A condition  *)
(* is found in the text by the value its placeholder is bound to.  Checked *)
(* under Spec.                                                             *)
(***************************************************************************)
C27_DeleteKeepsEveryCondition ==
    (Compiled /\ stmt.kind = "delete") =>
        \A i \in HistCalls({"where"}) :
            \A v \in ValuesOf(hist[i].arg) :
                \E j \in PartsOf({"WHERE"}) : HoldsValue(j, v)
(***************************************************************************)
(* C28  When the RETURN clause of a compiled Select has only the bare      *)
(* label of a labelled function, an item of the statement's WITH list      *)
(* introduced that label: RETURN names no label that no earlier clause     *)
(* defines.  Checked under Spec.                                           *)
(***************************************************************************)
\* part j has the label as an item of its own, not after AS
BareLabelIn(j, label) ==
    \E k \in 2..Len(out[j]) : out[j][k] = label /\ out[j][k - 1] # "AS"

\* the WITH item defines the name
Introduces(item, label) ==
    \/ item.t = "pair" /\ item.alias = label
    \/ item.t = "func" /\ item.label = label

C28_BareLabelComesFromWith ==
    (Compiled /\ stmt.kind = "select") =>
        \A j \in PartsOf({"RETURN"}) :
            \A i \in 1..Len(stmt.return_clauses) :
                (/\ stmt.return_clauses[i].t = "func"
                 /\ stmt.return_clauses[i].label # ""
                 /\ BareLabelIn(j, stmt.return_clauses[i].label)) =>
                    \E w \in 1..Len(stmt.with_clauses) :
                        Introduces(stmt.with_clauses[w], stmt.return_clauses[i].label)
(***************************************************************************)
(* C29  The suffix a VariableLength lowers to is the bare * exactly when   *)
(* both bounds are unset: a descriptor with max_hops set and min_hops      *)
(* unset is not written with a suffix that drops the upper bound.  Checked *)
(* under FnSpec.                                                           *)
(***************************************************************************)
\* the text of the lowered triple when its edge has the bare * suffix
UnboundedPattern ==
    EntityToMatchPattern(call.arg.src)
        \o "-[:" \o EdgeRelation(call.arg.edge.edge_class) \o "*" \o "]->"
        \o EntityToMatchPattern(call.arg.dst)

C29_BareStarIffNoBounds ==
    LoweredVariableLength =>
        (ret = UnboundedPattern
            <=> (call.arg.edge.min_hops = None /\ call.arg.edge.max_hops = None))
(***************************************************************************)
(* Arithmetic expressions built step by step with the operators + - * /    *)
(* on function calls, integers and other arithmetic expressions, each      *)
(* serialized with to_cypher() as soon as it is built: call.arg is the     *)
(* expression held, ret its text.                                          *)
(***************************************************************************)
MaxArith == 2

\* ArithmeticExpression(left, operator, right), no label() called
Arith(l, o, r) == [t |-> "arith", left |-> l, operator |-> o, right |-> r, label |-> ""]

ArithOperators == {"+", "-", "*", "/"}

\* the function calls and the integer to build from
ArithFunctions == { Func("SIZE", <<Cls("P")>>, ""), Func("LENGTH", <<Cls("Q")>>, "") }
ArithAtoms == ArithFunctions \cup { IntV(1) }

\* the operators of an expression
RECURSIVE ArithOps(_)
ArithOps(e) == IF e.t = "arith" THEN 1 + ArithOps(e.left) + ArithOps(e.right) ELSE 0

\* ArithmeticExpression.to_cypher : an operand that is not a Function is
\* serialized by its own to_cypher() without the alias map, or by str()
RECURSIVE ArithmeticToCypher(_, _)
ArithmeticToCypher(e, alias_map) ==
    LET format_operand(operand) ==
            IF operand.t = "func" THEN JoinStr(FunctionToCypher(operand, alias_map), " ")
            ELSE IF operand.t = "arith" THEN ArithmeticToCypher(operand, EmptyMap)
            ELSE PyStr(operand)
        Labelled(result) == IF e.label # "" THEN result \o " AS " \o e.label ELSE result
    IN  Labelled(format_operand(e.left) \o " " \o e.operator \o " " \o format_operand(e.right))

\* e has been built and is serialized
HeldArith(e) == Returned("to_cypher", e, ArithmeticToCypher(e, EmptyMap))

\* Function.__add__ and the like, Function.__radd__ and the like: one side is
\* a function call, the other a function call or an integer
NewArith ==
    \E f \in ArithFunctions : \E other \in ArithAtoms : \E o \in ArithOperators :
        \E e \in {Arith(f, o, other), Arith(other, o, f)} : HeldArith(e)

CanGrowArith == call.fn = "to_cypher" /\ ArithOps(call.arg) < MaxArith

\* ArithmeticExpression.__add__ and the like: held <op> other
GrowLeft ==
    /\ CanGrowArith
    /\ \E other \in ArithAtoms : \E o \in ArithOperators :
           HeldArith(Arith(call.arg, o, other))

\* Function.__add__ and the like with the held expression on the right
GrowRight ==
    /\ CanGrowArith
    /\ \E f \in ArithFunctions : \E o \in ArithOperators :
           HeldArith(Arith(f, o, call.arg))

ArithNext ==
    \/ NewArith
    \/ GrowLeft
    \/ GrowRight

ArithSpec == FnInit /\ [][ArithNext]_vars

(***************************************************************************)
(* C30  Serializing a nested arithmetic expression keeps its grouping:     *)
(* (a + b) * c and a + (b * c) do not serialize to the same text.  Stated  *)
(* of every held (a o1 b) o2 c against a o1 (b o2 c), but for the operator *)
(* pairs whose two groupings denote the same value.                        *)
(***************************************************************************)
\* (a o1 b) o2 c = a o1 (b o2 c) whatever a, b and c are
SameValue == { <<"+", "+">>, <<"+", "-">>, <<"*", "*">> }

C30_GroupingKeptInText ==
    (/\ call.fn = "to_cypher"
     /\ call.arg.t = "arith"
     /\ call.arg.left.t = "arith"
     /\ <<call.arg.left.operator, call.arg.operator>> \notin SameValue) =>
        ret # ArithmeticToCypher(
                  Arith(call.arg.left.left, call.arg.left.operator,
                        Arith(call.arg.left.right, call.arg.operator, call.arg.right)),
                  EmptyMap)
====
